----------------------------- MODULE DnsProofs -----------------------------
(* The walk of DNSClient through an answer, proved with TLAPS for every     *)
(* zone, host, identifier and port: the address it finds is one the server  *)
(* has for the name, and no read goes beyond the answer.                    *)
EXTENDS Dns, Rings, SequenceTheorems, TLAPS

Numbers == Seq(Nat)

\* The facts of arithmetic every step needs.
LEMMA Sizes ==
  /\ Server \in Nat \ {0} /\ Stranger \in Nat \ {0} /\ Stranger # Server
  /\ Ids \subseteq Nat /\ Ports \subseteq Nat \ {0}
  BY DnsAssumption DEF NOWHERE

LEMMA WordIsNat == \A n \in 0 .. WORD - 1 : n \in Nat
<1>1. WORD \in Int
  BY DEF WORD
<1>2. QED
  BY <1>1

LEMMA SmallWords ==
  /\ 0 \in 0 .. WORD - 1 /\ 1 \in 0 .. WORD - 1
  /\ \A n \in {0, 1, INVALID_SERVER} : n \in INVALID_SERVER .. WORD - 1
<1>1. WORD \in Nat /\ WORD > 1
  BY DEF WORD
<1>2. INVALID_SERVER = 0 - 2
  BY DEF INVALID_SERVER
<1>3. 0 \in 0 .. WORD - 1 /\ 1 \in 0 .. WORD - 1
  BY <1>1
<1>4. /\ 0 \in INVALID_SERVER .. WORD - 1 /\ 1 \in INVALID_SERVER .. WORD - 1
      /\ INVALID_SERVER \in INVALID_SERVER .. WORD - 1
  BY <1>1, <1>2
<1>5. QED
  BY <1>3, <1>4

LEMMA IdleIsLocal == Idle \in Locals /\ Idle.pc = "idle"
  BY DEF Idle, Locals, Labels, UNSET, BYTE, WORD

----------------------------------------------------------------------------
(* Sequences *)

\* What is left behind p cells, and behind n more.
LEMMA RestOf ==
  ASSUME NEW s \in Seq(Nat), NEW p \in 0 .. Len(s)
  PROVE  /\ SubSeq(s, p + 1, Len(s)) \in Seq(Nat)
         /\ Len(SubSeq(s, p + 1, Len(s))) = Len(s) - p
         /\ \A i \in 1 .. Len(s) - p : SubSeq(s, p + 1, Len(s))[i] = s[p + i]
<1> DEFINE L == Len(s)   f == p + 1
<1>1. L \in Nat /\ p \in 0 .. L
  BY LenProperties
<1>2. f \in Int /\ L \in Int /\ \A i \in f .. L : i \in 1 .. L
  BY <1>1
<1>3. \A i \in f .. L : s[i] \in Nat
  BY <1>2, ElementOfSeq
<1> HIDE DEF L, f
<1>4. /\ SubSeq(s, f, L) \in Seq(Nat)
      /\ Len(SubSeq(s, f, L)) = IF f <= L THEN L - f + 1 ELSE 0
      /\ \A i \in 1 .. L - f + 1 : SubSeq(s, f, L)[i] = s[f + i - 1]
  BY <1>2, <1>3, SubSeqProperties
<1>5. Len(SubSeq(s, f, L)) = L - p
  BY <1>1, <1>4 DEF f
<1>6. \A i \in 1 .. L - p : i \in 1 .. L - f + 1 /\ f + i - 1 = p + i
  BY <1>1 DEF f
<1>7. \A i \in 1 .. L - p : SubSeq(s, f, L)[i] = s[p + i]
  BY <1>4, <1>6
<1>8. QED
  BY <1>4, <1>5, <1>7 DEF L, f

LEMMA RestOfRest ==
  ASSUME NEW s \in Seq(Nat), NEW p \in 0 .. Len(s), NEW n \in Nat, p + n <= Len(s),
         NEW r, r = SubSeq(s, p + 1, Len(s))
  PROVE  SubSeq(r, n + 1, Len(r)) = SubSeq(s, p + n + 1, Len(s))
<1> DEFINE L == Len(s)   q == p + n   t == SubSeq(r, n + 1, Len(r))   u == SubSeq(s, q + 1, Len(s))
<1>1. L \in Nat /\ p \in 0 .. L /\ q \in 0 .. L
  BY LenProperties
<1>2. r \in Seq(Nat) /\ Len(r) = L - p /\ \A i \in 1 .. L - p : r[i] = s[p + i]
  BY RestOf
<1>3. n \in 0 .. Len(r)
  BY <1>1, <1>2
<1>4. t \in Seq(Nat) /\ Len(t) = Len(r) - n /\ \A i \in 1 .. Len(r) - n : t[i] = r[n + i]
  BY <1>2, <1>3, RestOf
<1> HIDE DEF q
<1>5. u \in Seq(Nat) /\ Len(u) = L - q /\ \A i \in 1 .. L - q : u[i] = s[q + i]
  BY <1>1, RestOf
<1> HIDE DEF t, u, L
<1>6. Len(t) = Len(u)
  BY <1>1, <1>2, <1>4, <1>5 DEF q
<1>7. ASSUME NEW i \in 1 .. Len(u)
      PROVE  t[i] = u[i]
  <2>1. /\ i \in 1 .. Len(r) - n /\ n + i \in 1 .. L - p /\ p + (n + i) = q + i
        /\ i \in 1 .. L - q
    BY <1>1, <1>2, <1>5, <1>7 DEF q
  <2>2. t[i] = r[n + i] /\ r[n + i] = s[p + (n + i)] /\ u[i] = s[q + i]
    BY <1>2, <1>4, <1>5, <2>1
  <2>3. QED
    BY <2>1, <2>2
<1>8. t = u
  BY <1>4, <1>5, <1>6, <1>7, SeqEqual
<1>9. QED
  BY <1>8 DEF t, u, q

\* The first n cells.
LEMMA FirstOf ==
  ASSUME NEW s \in Seq(Nat), NEW n \in 0 .. Len(s)
  PROVE  /\ SubSeq(s, 1, n) \in Seq(Nat) /\ Len(SubSeq(s, 1, n)) = n
         /\ \A i \in 1 .. n : SubSeq(s, 1, n)[i] = s[i]
<1>1. Len(s) \in Nat /\ n \in Int
  BY LenProperties
<1>2. \A i \in 1 .. n : s[i] \in Nat
  BY <1>1, ElementOfSeq
<1>3. /\ SubSeq(s, 1, n) \in Seq(Nat)
      /\ Len(SubSeq(s, 1, n)) = IF 1 <= n THEN n - 1 + 1 ELSE 0
      /\ \A i \in 1 .. n - 1 + 1 : SubSeq(s, 1, n)[i] = s[1 + i - 1]
  BY <1>1, <1>2, SubSeqProperties
<1> DEFINE t == SubSeq(s, 1, n)
<1> HIDE DEF t
<1>4. \A i \in 1 .. n : i \in 1 .. n - 1 + 1 /\ 1 + i - 1 = i
  OBVIOUS
<1>5. \A i \in 1 .. n : t[i] = s[i]
  BY <1>3, <1>4 DEF t
<1>6. Len(t) = n /\ t \in Seq(Nat)
  BY <1>1, <1>3 DEF t
<1>7. QED
  BY <1>5, <1>6 DEF t

LEMMA Joined ==
  ASSUME NEW s \in Seq(Nat), NEW t \in Seq(Nat)
  PROVE  /\ s \o t \in Seq(Nat) /\ Len(s \o t) = Len(s) + Len(t)
         /\ \A i \in 1 .. Len(s) : (s \o t)[i] = s[i]
         /\ \A i \in 1 .. Len(t) : (s \o t)[Len(s) + i] = t[i]
<1>1. Len(s) \in Nat /\ Len(t) \in Nat
  BY LenProperties
<1>2. /\ s \o t \in Seq(Nat) /\ Len(s \o t) = Len(s) + Len(t)
      /\ \A i \in 1 .. Len(s) + Len(t) :
             (s \o t)[i] = IF i <= Len(s) THEN s[i] ELSE t[i - Len(s)]
  BY ConcatProperties
<1> DEFINE a == Len(s)   b == Len(t)   c == s \o t
<1> HIDE DEF a, b, c
<1>3. a \in Nat /\ b \in Nat /\ \A i \in 1 .. a + b : c[i] = IF i <= a THEN s[i] ELSE t[i - a]
  BY <1>1, <1>2 DEF a, b, c
<1>4. ASSUME NEW i \in 1 .. a PROVE c[i] = s[i]
  <2>1. i \in 1 .. a + b /\ i <= a
    BY <1>3
  <2>2. QED
    BY <1>3, <2>1
<1>5. ASSUME NEW i \in 1 .. b PROVE c[a + i] = t[i]
  <2>1. a + i \in 1 .. a + b /\ ~(a + i <= a) /\ (a + i) - a = i
    BY <1>3
  <2>2. QED
    BY <1>3, <2>1
<1>6. QED
  BY <1>2, <1>4, <1>5 DEF a, b, c

----------------------------------------------------------------------------
(* What a zone says of an answer *)

Records(name) == Zone[name].records

BodyOf(name) == Body(name, Zone[name].cells)

\* Where the cells of a record begin in the answer.
Base(name, i) == Len(name) + 1 + Records(name)[i].at

LEMMA ZoneOf ==
  ASSUME NEW name \in DOMAIN Zone
  PROVE  /\ name \in Seq(Nat) /\ IsPlainName(name)
         /\ Records(name) \in Seq(Record) /\ Zone[name].cells \in Seq(Nat)
         /\ InOrder(Records(name), Zone[name].cells)
         /\ Len(name) \in Nat /\ Len(Records(name)) \in Nat /\ Len(Zone[name].cells) \in Nat
         /\ DOMAIN Records(name) = 1 .. Len(Records(name))
<1>1. /\ name \in Seq(Nat) /\ IsPlainName(name)
      /\ Records(name) \in Seq(Record) /\ Zone[name].cells \in Seq(Nat)
      /\ InOrder(Records(name), Zone[name].cells)
  BY ZoneAssumption DEF Records
<1>2. QED
  BY <1>1, LenProperties

LEMMA RecordOf ==
  ASSUME NEW name \in DOMAIN Zone, NEW i \in DOMAIN Records(name)
  PROVE  /\ Records(name)[i] \in Record /\ IsName(Records(name)[i].name)
         /\ Len(Records(name)[i].data) < WORD
<1>1. Records(name)[i] \in Record
  BY ZoneOf, ElementOfSeq
<1>2. QED
  BY <1>1, ZoneAssumption DEF Records

\* The cells of a record: its name, type, class, lifetime, length and data.
LEMMA RecordParts ==
  ASSUME NEW r \in Record
  PROVE  /\ Len(r.name) \in Nat /\ Len(r.data) \in Nat
         /\ RecordCells(r) \in Seq(Nat)
         /\ Len(RecordCells(r)) = Len(r.name) + 4 + Len(r.data)
         /\ \A k \in 1 .. Len(r.name) : RecordCells(r)[k] = r.name[k]
         /\ RecordCells(r)[Len(r.name) + 1] = r.type
         /\ RecordCells(r)[Len(r.name) + 2] = r.class
         /\ RecordCells(r)[Len(r.name) + 4] = Len(r.data)
         /\ \A k \in 1 .. Len(r.data) : RecordCells(r)[Len(r.name) + 4 + k] = r.data[k]
<1> DEFINE s == r.name   t == r.data   l == Len(s)   d == Len(t)
           h == <<r.type, r.class, 0, d>>
<1>1. s \in Seq(Nat) /\ t \in Seq(Nat) /\ r.type \in Nat /\ r.class \in Nat
  <2>1. /\ s \in Seq(Nat) /\ t \in Seq(Nat)
        /\ r.type \in 0 .. WORD - 1 /\ r.class \in 0 .. WORD - 1
    BY DEF Record
  <2>2. QED
    BY <2>1, WordIsNat
<1> HIDE DEF s, t
<1>2. l \in Nat /\ d \in Nat
  BY <1>1, LenProperties
<1> HIDE DEF l, d
<1>3. /\ h \in Seq(Nat) /\ Len(h) = 4 /\ h[1] = r.type /\ h[2] = r.class /\ h[4] = d
  BY <1>1, <1>2
<1> HIDE DEF h
<1> DEFINE u == s \o h   v == u \o t
<1>4. /\ u \in Seq(Nat) /\ Len(u) = l + 4
      /\ \A i \in 1 .. l : u[i] = s[i]
      /\ \A i \in 1 .. 4 : u[l + i] = h[i]
  <2>1. /\ u \in Seq(Nat) /\ Len(u) = Len(s) + Len(h)
        /\ \A i \in 1 .. Len(s) : u[i] = s[i]
        /\ \A i \in 1 .. Len(h) : u[Len(s) + i] = h[i]
    BY <1>1, <1>3, Joined
  <2> HIDE DEF u
  <2>2. QED
    BY <2>1, <1>3 DEF l
<1> HIDE DEF u
<1>5. /\ v \in Seq(Nat) /\ Len(v) = (l + 4) + d
      /\ \A i \in 1 .. l + 4 : v[i] = u[i]
      /\ \A i \in 1 .. d : v[(l + 4) + i] = t[i]
  <2>1. u \in Seq(Nat) /\ Len(u) = l + 4
    BY <1>4
  <2>2. /\ v \in Seq(Nat) /\ Len(v) = Len(u) + Len(t)
        /\ \A i \in 1 .. Len(u) : v[i] = u[i]
        /\ \A i \in 1 .. Len(t) : v[Len(u) + i] = t[i]
    BY <1>1, <2>1, Joined
  <2> HIDE DEF v
  <2>3. QED
    BY <2>1, <2>2 DEF d
<1> HIDE DEF v
<1>6. ASSUME NEW i \in 1 .. l PROVE v[i] = s[i]
  <2>1. i \in 1 .. l + 4
    BY <1>2
  <2>2. QED
    BY <1>4, <1>5, <2>1
<1>7. ASSUME NEW i \in 1 .. 4 PROVE v[l + i] = h[i]
  <2>1. l + i \in 1 .. l + 4
    BY <1>2
  <2>2. QED
    BY <1>4, <1>5, <2>1
<1>8. v[l + 1] = r.type /\ v[l + 2] = r.class /\ v[l + 4] = d
  BY <1>3, <1>7
<1>9. RecordCells(r) = v
  BY DEF RecordCells, v, u, h, s, t, d
<1>10. QED
  BY <1>1, <1>2, <1>5, <1>6, <1>8, <1>9 DEF l, d, s, t

\* A body: the question's name, its type and class, and the answers.
LEMMA BodyParts ==
  ASSUME NEW name \in Seq(Nat), NEW cells \in Seq(Nat)
  PROVE  /\ Body(name, cells) \in Seq(Nat)
         /\ Len(Body(name, cells)) = Len(name) + 2 + Len(cells)
         /\ \A k \in 1 .. Len(name) : Body(name, cells)[k] = name[k]
         /\ \A k \in 1 .. Len(cells) : Body(name, cells)[Len(name) + 2 + k] = cells[k]
<1> DEFINE h == <<TYPE_A, CLASS_IN>>   u == name \o h   v == u \o cells   l == Len(name)
           d == Len(cells)
<1>1. h \in Seq(Nat) /\ Len(h) = 2
  BY DEF TYPE_A, CLASS_IN
<1> HIDE DEF h
<1>2. l \in Nat /\ d \in Nat
  BY LenProperties
<1>3. u \in Seq(Nat) /\ Len(u) = l + 2 /\ \A i \in 1 .. l : u[i] = name[i]
  <2>1. u \in Seq(Nat) /\ Len(u) = l + Len(h) /\ \A i \in 1 .. l : u[i] = name[i]
    BY <1>1, Joined
  <2>2. QED
    BY <1>1, <2>1
<1> HIDE DEF u
<1>4. /\ v \in Seq(Nat) /\ Len(v) = Len(u) + d
      /\ \A i \in 1 .. Len(u) : v[i] = u[i]
      /\ \A i \in 1 .. d : v[Len(u) + i] = cells[i]
  BY <1>3, Joined
<1> HIDE DEF v, l, d
<1>5. \A i \in 1 .. l : v[i] = name[i]
  <2>1. \A i \in 1 .. l : i \in 1 .. l + 2
    BY <1>2
  <2>2. QED
    BY <1>3, <1>4, <2>1
<1>6. Body(name, cells) = v
  BY DEF Body, v, u, h
<1>7. QED
  BY <1>3, <1>4, <1>5, <1>6 DEF l, d

\* A record's cells in a body, and where the next one begins.
LEMMA RecordInBody ==
  ASSUME NEW name \in DOMAIN Zone, NEW i \in DOMAIN Records(name)
  PROVE  /\ Base(name, i) \in Nat
         /\ Base(name, i) + Len(RecordCells(Records(name)[i])) <= Len(BodyOf(name))
         /\ \A k \in 1 .. Len(RecordCells(Records(name)[i])) :
                BodyOf(name)[Base(name, i) + k] = RecordCells(Records(name)[i])[k]
         /\ i = 1 => Base(name, i) = Len(name) + 2
         /\ i < Len(Records(name)) =>
                Base(name, i + 1) = Base(name, i) + Len(RecordCells(Records(name)[i]))
<1> PICK r : r = Records(name)[i]
  OBVIOUS
<1> DEFINE cells == Zone[name].cells   rs == Records(name)   l == Len(name)   d == Len(cells)
           w == Len(RecordCells(r))   a == r.at
<1>1. /\ name \in Seq(Nat) /\ cells \in Seq(Nat) /\ InOrder(rs, cells)
      /\ l \in Nat /\ d \in Nat /\ Len(rs) \in Nat /\ DOMAIN rs = 1 .. Len(rs)
      /\ rs \in Seq(Record)
  BY ZoneOf
<1>2. r \in Record /\ r.at \in Nat
  BY RecordOf DEF Record
<1>3. w \in Nat /\ DOMAIN RecordCells(r) = 1 .. w
  BY <1>2, RecordParts, LenProperties
<1> HIDE DEF cells, rs
<1>4. /\ a = IF i = 1 THEN 1 ELSE EndOf(rs[i - 1])
      /\ a + w <= d + 1
      /\ \A k \in 1 .. w : cells[a + k - 1] = RecordCells(r)[k]
  BY <1>1, <1>3 DEF InOrder, EndOf, rs
<1>5. a >= 1
  <2>1. CASE i = 1
    BY <2>1, <1>4
  <2>2. CASE i # 1
    <3>1. i - 1 \in 1 .. Len(rs)
      BY <1>1, <2>2 DEF rs
    <3>2. rs[i - 1] \in Record
      BY <3>1, <1>1, ElementOfSeq
    <3> DEFINE p == rs[i - 1]
    <3>3. Len(p.name) \in Nat /\ Len(p.data) \in Nat
          /\ Len(RecordCells(p)) = Len(p.name) + 4 + Len(p.data)
      BY <3>2, RecordParts
    <3>4. p.at \in Nat
      BY <3>2 DEF Record
    <3> HIDE DEF p
    <3> DEFINE x == Len(p.name)   y == Len(p.data)   z == p.at   c == Len(RecordCells(p))
    <3>5. EndOf(p) = z + c
      BY DEF EndOf
    <3>6. EndOf(p) >= 1
      <4>1. x \in Nat /\ y \in Nat /\ z \in Nat /\ c = x + 4 + y
        BY <3>3, <3>4
      <4> HIDE DEF x, y, z, c
      <4>2. QED
        BY <4>1, <3>5
    <3>7. QED
      BY <3>6, <1>4, <2>2 DEF p
  <2>3. QED
    BY <2>1, <2>2
<1> DEFINE b == BodyOf(name)   f == Base(name, i)
<1>6. /\ Len(b) = l + 2 + d
      /\ \A k \in 1 .. d : b[l + 2 + k] = cells[k]
  BY <1>1, BodyParts DEF BodyOf, cells
<1>7. f = l + 1 + a
  BY DEF Base, rs
<1>8. a \in Nat
  BY <1>2
<1>9. i < Len(rs) => Base(name, i + 1) = l + 1 + (a + w)
  <2> HAVE i < Len(rs)
  <2>1. i + 1 \in DOMAIN rs /\ i + 1 # 1 /\ (i + 1) - 1 = i
    BY <1>1 DEF rs
  <2>2. rs[i + 1].at = EndOf(rs[i])
    BY <1>1, <2>1 DEF InOrder
  <2>3. QED
    BY <2>2 DEF Base, EndOf, rs
<1> HIDE DEF b, f, l, d, w, a
<1>10. ASSUME NEW k \in 1 .. w PROVE b[f + k] = RecordCells(r)[k]
  <2>1. /\ a + k - 1 \in 1 .. d /\ l + 2 + (a + k - 1) = f + k
    <3>1. a + w <= d + 1 /\ w \in Nat
      BY <1>3, <1>4
    <3>2. l \in Nat /\ d \in Nat
      BY <1>1
    <3>3. QED
      BY <3>1, <3>2, <1>5, <1>7, <1>8
  <2> DEFINE m == a + k - 1
  <2>2. cells[m] = RecordCells(r)[k]
    BY <1>4
  <2> HIDE DEF m
  <2>3. b[l + 2 + m] = cells[m]
    BY <1>6, <2>1 DEF m
  <2>4. QED
    BY <2>1, <2>2, <2>3 DEF m
<1>11. f \in Nat /\ f + w <= Len(b)
  BY <1>1, <1>3, <1>4, <1>6, <1>7, <1>8
<1>12. i = 1 => f = l + 2
  BY <1>1, <1>4, <1>7
<1>13. i < Len(rs) => Base(name, i + 1) = f + w
  BY <1>1, <1>3, <1>7, <1>8, <1>9
<1>14. QED
  BY <1>10, <1>11, <1>12, <1>13 DEF b, f, w, l, rs

\* What the server sends: the query's identifier, and either no records or all
\* of the name's.
LEMMA ReplyParts ==
  ASSUME NEW id \in Nat, NEW flags \in Nat, NEW n \in Nat, NEW body \in Seq(Nat),
         NEW data, data = <<id, flags, 1, n>> \o body
  PROVE  /\ data \in Seq(Nat) /\ Len(data) = 4 + Len(body)
         /\ data[1] = id /\ data[2] = flags /\ data[3] = 1 /\ data[4] = n
         /\ SubSeq(data, 5, Len(data)) = body
<1> DEFINE h == <<id, flags, 1, n>>   d == Len(body)   r == SubSeq(data, 4 + 1, Len(data))
<1>1. h \in Seq(Nat) /\ Len(h) = 4 /\ h[1] = id /\ h[2] = flags /\ h[3] = 1 /\ h[4] = n
  OBVIOUS
<1> HIDE DEF h
<1>2. /\ data \in Seq(Nat) /\ Len(data) = Len(h) + Len(body)
      /\ \A i \in 1 .. Len(h) : data[i] = h[i]
      /\ \A i \in 1 .. Len(body) : data[Len(h) + i] = body[i]
  BY <1>1, Joined DEF h
<1>3. d \in Nat
  BY LenProperties
<1>4. Len(data) = 4 + d /\ \A i \in 1 .. 4 : data[i] = h[i]
  BY <1>1, <1>2
<1>5. \A i \in 1 .. d : data[4 + i] = body[i]
  BY <1>1, <1>2
<1> HIDE DEF d
<1>6. 4 \in 0 .. Len(data)
  BY <1>3, <1>4
<1>7. r \in Seq(Nat) /\ Len(r) = Len(data) - 4 /\ \A i \in 1 .. Len(data) - 4 : r[i] = data[4 + i]
  BY <1>2, <1>6, RestOf
<1> HIDE DEF r
<1>8. Len(r) = Len(body) /\ \A i \in 1 .. Len(r) : r[i] = body[i]
  <2>1. Len(r) = d
    BY <1>3, <1>4, <1>7
  <2>2. Len(data) - 4 = d
    BY <1>3, <1>4
  <2>3. QED
    BY <2>1, <2>2, <1>5, <1>7 DEF d
<1>9. r = body
  BY <1>7, <1>8, SeqEqual
<1>10. QED
  BY <1>1, <1>2, <1>4, <1>9 DEF r, d

LEMMA RepliesAre ==
  ASSUME NEW query \in Queries, NEW data \in Replies(query)
  PROVE  /\ data \in Seq(Nat) /\ Len(data) \in Nat /\ Len(data) >= 4
         /\ data[1] = query.id /\ data[3] = 1 /\ data[4] \in Nat
         /\ data[4] > 0 => /\ data[4] = Len(Records(query.name))
                           /\ SubSeq(data, 5, Len(data)) = BodyOf(query.name)
<1> DEFINE name == query.name   rs == Records(name)   cells == Zone[name].cells
<1>1. name \in DOMAIN Zone /\ query.id \in Nat
  BY Sizes DEF Queries
<1>2. name \in Seq(Nat) /\ cells \in Seq(Nat) /\ Len(rs) \in Nat
  BY <1>1, ZoneOf
<1>3. <<>> \in Seq(Nat) /\ Len(<<>>) = 0
  OBVIOUS
<1>4. Body(name, cells) \in Seq(Nat) /\ Body(name, <<>>) \in Seq(Nat)
  BY <1>2, <1>3, BodyParts
<1>5. \/ data = <<query.id, RESPONSE, 1, Len(rs)>> \o Body(name, cells)
      \/ data = <<query.id, RESPONSE, 1, Len(<<>>)>> \o Body(name, <<>>)
      \/ data = <<query.id, FAILED, 1, Len(<<>>)>> \o Body(name, <<>>)
  BY DEF Replies, Reply, Records
<1>6. RESPONSE \in Nat /\ FAILED \in Nat
  BY DEF RESPONSE, FAILED
<1> HIDE DEF rs, cells, name
<1>7. CASE data = <<query.id, RESPONSE, 1, Len(rs)>> \o Body(name, cells)
  <2> DEFINE body == Body(name, cells)
  <2>1. body \in Seq(Nat) /\ Len(body) \in Nat
    BY <1>4, LenProperties
  <2> HIDE DEF body
  <2>2. data = <<query.id, RESPONSE, 1, Len(rs)>> \o body
    BY <1>7 DEF body
  <2>3. /\ data \in Seq(Nat) /\ Len(data) = 4 + Len(body)
        /\ data[1] = query.id /\ data[3] = 1 /\ data[4] = Len(rs)
        /\ SubSeq(data, 5, Len(data)) = body
    BY <1>1, <1>2, <1>6, <2>1, <2>2, ReplyParts
  <2>4. Len(data) \in Nat /\ Len(data) >= 4
    BY <2>1, <2>3
  <2>5. QED
    BY <1>2, <2>3, <2>4 DEF body, BodyOf, rs, cells, name
<1>8. ASSUME NEW flags \in Nat, data = <<query.id, flags, 1, Len(<<>>)>> \o Body(name, <<>>)
      PROVE  /\ data \in Seq(Nat) /\ Len(data) \in Nat /\ Len(data) >= 4
             /\ data[1] = query.id /\ data[3] = 1 /\ data[4] = 0
  <2> DEFINE body == Body(name, <<>>)
  <2>1. body \in Seq(Nat) /\ Len(body) \in Nat
    BY <1>4, LenProperties
  <2> HIDE DEF body
  <2>2. data = <<query.id, flags, 1, 0>> \o body
    BY <1>8, <1>3 DEF body
  <2>3. /\ data \in Seq(Nat) /\ Len(data) = 4 + Len(body)
        /\ data[1] = query.id /\ data[3] = 1 /\ data[4] = 0
    BY <1>1, <2>1, <2>2, ReplyParts
  <2>4. QED
    BY <2>1, <2>3
<1>9. CASE data = <<query.id, RESPONSE, 1, Len(<<>>)>> \o Body(name, <<>>)
  <2>1. /\ data \in Seq(Nat) /\ Len(data) \in Nat /\ Len(data) >= 4
        /\ data[1] = query.id /\ data[3] = 1 /\ data[4] = 0
    BY <1>6, <1>8, <1>9
  <2>2. QED
    BY <2>1
<1>10. CASE data = <<query.id, FAILED, 1, Len(<<>>)>> \o Body(name, <<>>)
  <2>1. /\ data \in Seq(Nat) /\ Len(data) \in Nat /\ Len(data) >= 4
        /\ data[1] = query.id /\ data[3] = 1 /\ data[4] = 0
    BY <1>6, <1>8, <1>10
  <2>2. QED
    BY <2>1
<1>11. QED
  BY <1>5, <1>7, <1>9, <1>10

----------------------------------------------------------------------------
(* Steps of the socket *)

LEMMA Mods ==
  \A x \in Nat : /\ x % WORD \in 0 .. WORD - 1 /\ x % BYTE \in 0 .. BYTE - 1
                 /\ x < WORD => x % WORD = x
                 /\ x < BYTE => x % BYTE = x
<1>1. ASSUME NEW w \in Nat \ {0}, NEW x \in Nat
      PROVE  x % w \in 0 .. w - 1 /\ (x < w => x % w = x)
  OBVIOUS
<1>2. WORD \in Nat \ {0} /\ BYTE \in Nat \ {0}
  BY DEF WORD, BYTE
<1>3. QED
  BY <1>1, <1>2

LEMMA Small ==
  /\ \A c \in 0 .. WORD - 1 : c \in Nat /\ c % WORD = c
  /\ \A c \in 0 .. BYTE - 1 : c \in Nat /\ c % BYTE = c
<1>1. WORD \in Nat /\ BYTE \in Nat
  BY DEF WORD, BYTE
<1>2. ASSUME NEW w \in Nat PROVE \A c \in 0 .. w - 1 : c \in Nat /\ c < w
  OBVIOUS
<1>3. QED
  BY <1>1, <1>2, Mods

LEMMA ReadOf ==
  ASSUME TypeOK, NEW n \in Nat, Read(n)
  PROVE  /\ Len(rest) \in Nat /\ n <= Len(rest)
         /\ rest' = SubSeq(rest, n + 1, Len(rest))
         /\ rest' \in Seq(Nat) /\ got' \in Seq(Nat) /\ Len(got') = n
         /\ \A i \in 1 .. n : got'[i] = rest[i] /\ got'[i] \in Nat
         /\ moving' = FALSE /\ UNCHANGED <<queue, remote, port, torn>>
<1>1. rest \in Seq(Nat) /\ Len(rest) \in Nat
  BY LenProperties DEF TypeOK
<1>2. /\ n <= Len(rest) /\ rest' = SubSeq(rest, n + 1, Len(rest))
      /\ got' = SubSeq(rest, 1, n)
      /\ moving' = FALSE /\ UNCHANGED <<queue, remote, port, torn>>
  BY DEF Read, Udp!Read, Udp!Advance
<1>3. n \in 0 .. Len(rest)
  BY <1>1, <1>2
<1>4. rest' \in Seq(Nat)
  BY <1>1, <1>2, <1>3, RestOf
<1>5. got' \in Seq(Nat) /\ Len(got') = n /\ \A i \in 1 .. n : got'[i] = rest[i]
  BY <1>1, <1>2, <1>3, FirstOf
<1>6. \A i \in 1 .. n : got'[i] \in Nat
  BY <1>5, ElementOfSeq
<1>7. QED
  BY <1>1, <1>2, <1>4, <1>5, <1>6

LEMMA ReadOne ==
  ASSUME TypeOK, Read(1)
  PROVE  /\ Len(rest) \in Nat /\ 1 <= Len(rest)
         /\ rest' = SubSeq(rest, 1 + 1, Len(rest))
         /\ rest' \in Seq(Nat) /\ got' \in Seq(Nat)
         /\ got'[1] = rest[1] /\ got'[1] \in Nat
         /\ moving' = FALSE /\ UNCHANGED <<queue, remote, port, torn>>
<1>1. 1 \in Nat /\ 1 \in 1 .. 1
  OBVIOUS
<1>2. /\ Len(rest) \in Nat /\ 1 <= Len(rest)
      /\ rest' = SubSeq(rest, 1 + 1, Len(rest))
      /\ rest' \in Seq(Nat) /\ got' \in Seq(Nat)
      /\ moving' = FALSE /\ UNCHANGED <<queue, remote, port, torn>>
  BY <1>1, ReadOf
<1>3. \A i \in 1 .. 1 : got'[i] = rest[i] /\ got'[i] \in Nat
  BY <1>1, ReadOf
<1>4. QED
  BY <1>1, <1>2, <1>3

LEMMA FailsOf ==
  ASSUME TypeOK, ReadFails
  PROVE  /\ rest' \in Seq(Nat) /\ got' \in Seq(Nat)
         /\ moving' = FALSE /\ torn' = TRUE /\ UNCHANGED <<queue, remote, rest, got, port>>
         /\ moving \/ Len(rest) = 0
  BY DEF ReadFails, TypeOK

\* Cells are dropped to the end of the datagram at most; if a read fails before
\* that, another datagram has come in.
LEMMA SkipOf ==
  ASSUME TypeOK, NEW n \in Nat, SkipCells(n)
  PROVE  /\ Len(rest) \in Nat
         /\ rest' \in Seq(Nat) /\ got' \in Seq(Nat) /\ moving' = FALSE
         /\ torn' \in BOOLEAN /\ UNCHANGED <<queue, remote, got, port>>
         /\ ~torn' => ~torn /\ n <= Len(rest) /\ rest' = SubSeq(rest, n + 1, Len(rest))
         /\ torn' /\ ~torn => moving \/ Len(rest) < n
<1>1. rest \in Seq(Nat) /\ Len(rest) \in Nat /\ torn \in BOOLEAN /\ got \in Seq(Nat)
  BY LenProperties DEF TypeOK
<1>2. PICK k \in {n, n - 1, Len(rest)} :
        /\ k \in 0 .. n /\ (k < n => moving \/ k = Len(rest))
        /\ Udp!Skip(k)
        /\ torn' = (torn \/ k < n)
  BY DEF SkipCells
<1>3. /\ k <= Len(rest) /\ rest' = SubSeq(rest, k + 1, Len(rest))
      /\ UNCHANGED <<queue, remote, got, port>> /\ moving' = FALSE
  BY <1>2 DEF Udp!Skip, Udp!Advance, SkipCells
<1>4. k \in 0 .. Len(rest)
  BY <1>1, <1>2, <1>3
<1>5. rest' \in Seq(Nat)
  BY <1>1, <1>3, <1>4, RestOf
<1>6. ~torn' => ~torn /\ k = n
  <2>1. k < n \/ k = n
    BY <1>2
  <2>2. QED
    BY <1>2, <2>1
<1>7. torn' /\ ~torn => moving \/ Len(rest) < n
  BY <1>1, <1>2
<1>8. torn' \in BOOLEAN
  BY <1>2
<1>9. QED
  BY <1>1, <1>3, <1>5, <1>6, <1>7, <1>8

LEMMA FlushOf ==
  ASSUME TypeOK, NEW code, FlushAndReturn(code)
  PROVE  /\ rest' \in Seq(Nat) /\ got' \in Seq(Nat) /\ moving' = FALSE
         /\ UNCHANGED <<queue, remote, got, port, torn, aResult>>
         /\ ret' = code % WORD /\ cpu' = [Idle EXCEPT !.pc = "stop"]
<1>1. rest \in Seq(Nat) /\ Len(rest) \in Nat /\ got \in Seq(Nat)
  BY LenProperties DEF TypeOK
<1>2. /\ rest' = SubSeq(rest, Len(rest) + 1, Len(rest)) /\ moving' = FALSE
      /\ UNCHANGED <<queue, remote, got, port, torn, aResult>>
      /\ ret' = code % WORD /\ cpu' = [Idle EXCEPT !.pc = "stop"]
  BY DEF FlushAndReturn, Udp!Skip, Udp!Advance, Return, Leave
<1>3. rest' \in Seq(Nat)
  <2>1. Len(rest) \in 0 .. Len(rest)
    BY <1>1
  <2>2. QED
    BY <1>1, <1>2, <2>1, RestOf
<1>4. QED
  BY <1>1, <1>2, <1>3

----------------------------------------------------------------------------
(* What a step while a lookup is under way has to keep *)

\* A step that neither takes nor sends anything.
Quiet ==
    /\ UNCHANGED <<queue, remote, port, object, asked>>
    /\ rest' \in Seq(Nat) /\ got' \in Seq(Nat) /\ torn' \in BOOLEAN /\ moving' \in BOOLEAN

LEMMA QuietStep ==
  ASSUME DnsInv, Quiet, cpu.pc \notin {"idle", "lookup"},
         cpu' \in Locals, cpu'.pc \notin {"idle", "lookup", "request"},
         ret' \in INVALID_SERVER .. WORD - 1,
         ServerRight', HeaderRight', CountsRight', InAnswer', AddressChecked', AddressIsRight'
  PROVE  DnsInv'
<1>1. TypeOK'
  BY DEF DnsInv, TypeOK, Quiet, object, At
<1>2. ArrivedRight'
  BY DEF DnsInv, ArrivedRight, Quiet
<1>3. QED
  BY <1>1, <1>2 DEF DnsInv

\* The lookup ends, and not with an address.
LEMMA FailedStep ==
  ASSUME DnsInv, Quiet, cpu.pc \notin {"idle", "lookup"},
         cpu' = [Idle EXCEPT !.pc = "stop"],
         ret' \in INVALID_SERVER .. WORD - 1, ret' # SUCCESS \/ AddressIsRight'
  PROVE  DnsInv'
<1>1. cpu' \in Locals /\ cpu'.pc = "stop"
  BY IdleIsLocal DEF Locals, Labels, Idle
<1>2. ServerRight' /\ HeaderRight' /\ CountsRight' /\ InAnswer' /\ AddressChecked'
  BY <1>1 DEF ServerRight, HeaderRight, CountsRight, InAnswer, AddressChecked, At, Walking
<1>3. AddressIsRight'
  BY DEF AddressIsRight
<1>4. QED
  BY <1>1, <1>2, <1>3, QuietStep

\* Errors of ProcessResponse as the caller sees them.
LEMMA Errors ==
  \A code \in {TIMED_OUT, INVALID_SERVER, TRUNCATED, INVALID_RESPONSE, -5, -6, -9, -10} :
      code % WORD \in INVALID_SERVER .. WORD - 1 /\ code % WORD # SUCCESS
<1>1. ASSUME NEW w \in Nat, w > 20, NEW k \in 1 .. 10
      PROVE  (-k) % w = w - k
  <2>1. w - k \in 0 .. w - 1 /\ w \in Nat \ {0}
    BY <1>1
  <2>2. (w - k) - w = -k
    BY <1>1
  <2>3. ((w - k) - w) % w = w - k
    BY <2>1, ModSmall
  <2>4. QED
    BY <2>2, <2>3
<1>2. WORD \in Nat /\ WORD > 20 /\ INVALID_SERVER = -2 /\ SUCCESS = 1
  BY DEF WORD, INVALID_SERVER, SUCCESS
<1>3. ASSUME NEW k \in 1 .. 10
      PROVE  (-k) % WORD \in INVALID_SERVER .. WORD - 1 /\ (-k) % WORD # SUCCESS
  <2>1. (-k) % WORD = WORD - k
    BY <1>1, <1>2
  <2>2. WORD - k \in INVALID_SERVER .. WORD - 1 /\ WORD - k # SUCCESS
    BY <1>2
  <2>3. QED
    BY <2>1, <2>2
<1>4. QED
  BY <1>3 DEF TIMED_OUT, INVALID_SERVER, TRUNCATED, INVALID_RESPONSE

LEMMA FlushedStep ==
  ASSUME DnsInv, cpu.pc \notin {"idle", "lookup"},
         NEW code \in {INVALID_RESPONSE, -5, -6, -9, -10}, FlushAndReturn(code),
         UNCHANGED <<object, asked>>
  PROVE  DnsInv'
<1>1. TypeOK
  BY DEF DnsInv
<1>2. /\ rest' \in Seq(Nat) /\ got' \in Seq(Nat) /\ moving' = FALSE
      /\ UNCHANGED <<queue, remote, got, port, torn, aResult>>
      /\ ret' = code % WORD /\ cpu' = [Idle EXCEPT !.pc = "stop"]
  BY <1>1, FlushOf
<1>3. Quiet
  BY <1>1, <1>2 DEF Quiet, TypeOK
<1>4. ret' \in INVALID_SERVER .. WORD - 1 /\ ret' # SUCCESS
  BY <1>2, Errors
<1>5. QED
  BY <1>2, <1>3, <1>4, FailedStep

\* The code goes on through the answer, or to the end of it.
LEMMA WalkedStep ==
  ASSUME DnsInv, Quiet, cpu.pc \notin {"idle", "lookup"}, UNCHANGED result,
         cpu' \in Locals, cpu'.pc \in Walking \union {"end"},
         CountsRight', InAnswer', AddressChecked'
  PROVE  DnsInv'
<1>1. ServerRight' /\ HeaderRight' /\ AddressIsRight'
  BY DEF ServerRight, HeaderRight, AddressIsRight, At, Walking
<1>2. ret' \in INVALID_SERVER .. WORD - 1
  BY DEF DnsInv, TypeOK, result
<1>3. cpu'.pc \notin {"idle", "lookup", "request"}
  BY DEF Walking
<1>4. QED
  BY <1>1, <1>2, <1>3, QuietStep

LEMMA Locally ==
  ASSUME DnsInv
  PROVE  /\ TypeOK /\ cpu \in Locals /\ cpu.questions \in Nat /\ cpu.answers \in Nat
         /\ cpu.len \in UNSET .. BYTE - 1 /\ cpu.rdlength \in Nat /\ cpu.pc \in Labels
         /\ torn \in BOOLEAN /\ moving \in BOOLEAN
<1>1. TypeOK /\ cpu \in Locals /\ torn \in BOOLEAN /\ moving \in BOOLEAN
  BY DEF DnsInv, TypeOK
<1>2. cpu.rdlength \in 0 .. WORD - 1
  BY <1>1 DEF Locals
<1>3. QED
  BY <1>1, <1>2, WordIsNat DEF Locals

\* Cells are dropped.
LEMMA SkipStep ==
  ASSUME DnsInv, NEW n \in Nat, SkipCells(n), UNCHANGED <<object, result, asked>>,
         cpu.pc \in Walking, cpu' \in Locals, cpu'.pc \in Walking \union {"end"},
         CountsRight', AddressChecked', ~torn => n <= Len(rest),
         (~torn /\ rest' = SubSeq(rest, n + 1, Len(rest)) /\ UNCHANGED port) => InAnswer'
  PROVE  DnsInv' /\ (~torn /\ torn' => moving)
<1>1. TypeOK
  BY Locally
<1>2. /\ Len(rest) \in Nat
      /\ rest' \in Seq(Nat) /\ got' \in Seq(Nat) /\ moving' = FALSE
      /\ torn' \in BOOLEAN /\ UNCHANGED <<queue, remote, got, port>>
      /\ ~torn' => ~torn /\ n <= Len(rest) /\ rest' = SubSeq(rest, n + 1, Len(rest))
      /\ torn' /\ ~torn => moving \/ Len(rest) < n
  BY <1>1, SkipOf
<1>3. Quiet
  BY <1>2 DEF Quiet
<1>4. InAnswer'
  <2>1. CASE torn'
    BY <2>1 DEF InAnswer
  <2>2. CASE ~torn'
    BY <1>2, <2>2
  <2>3. QED
    BY <2>1, <2>2
<1>5. cpu.pc \notin {"idle", "lookup"}
  BY DEF Walking
<1>6. DnsInv'
  BY <1>3, <1>4, <1>5, WalkedStep
<1>7. ~torn /\ torn' => moving
  BY <1>2
<1>8. QED
  BY <1>6, <1>7

\* A cell is read.
LEMMA TakeStep ==
  ASSUME DnsInv, Read(1), UNCHANGED <<object, result, asked>>,
         cpu.pc \in Walking, cpu' \in Locals, cpu'.pc \in Walking \union {"end"},
         CountsRight', AddressChecked',
         (~torn /\ rest' = SubSeq(rest, 1 + 1, Len(rest)) /\ UNCHANGED port) => InAnswer'
  PROVE  DnsInv' /\ torn' = torn
<1>1. TypeOK /\ torn \in BOOLEAN
  BY Locally
<1>2. /\ rest' = SubSeq(rest, 1 + 1, Len(rest))
      /\ rest' \in Seq(Nat) /\ got' \in Seq(Nat)
      /\ moving' = FALSE /\ UNCHANGED <<queue, remote, port, torn>>
  BY <1>1, ReadOne
<1>3. Quiet
  BY <1>1, <1>2 DEF Quiet
<1>4. InAnswer'
  <2>1. CASE torn'
    BY <2>1 DEF InAnswer
  <2>2. CASE ~torn'
    BY <1>2, <2>2
  <2>3. QED
    BY <2>1, <2>2
<1>5. cpu.pc \notin {"idle", "lookup"}
  BY DEF Walking
<1>6. DnsInv'
  BY <1>3, <1>4, <1>5, WalkedStep
<1>7. QED
  BY <1>2, <1>6

\* A read fails.
LEMMA FailStep ==
  ASSUME DnsInv, ReadFails, UNCHANGED <<object, result, asked>>,
         cpu.pc \in Walking, cpu' \in Locals, cpu'.pc \in Walking \union {"end"},
         CountsRight', AddressChecked', ~torn => 1 <= Len(rest)
  PROVE  DnsInv' /\ (~torn => moving)
<1>1. TypeOK
  BY Locally
<1>2. /\ rest' \in Seq(Nat) /\ got' \in Seq(Nat)
      /\ moving' = FALSE /\ torn' = TRUE /\ UNCHANGED <<queue, remote, rest, got, port>>
      /\ moving \/ Len(rest) = 0
  BY <1>1, FailsOf
<1>3. Quiet
  BY <1>2 DEF Quiet
<1>4. InAnswer'
  BY <1>2 DEF InAnswer
<1>5. cpu.pc \notin {"idle", "lookup"}
  BY DEF Walking
<1>6. DnsInv'
  BY <1>3, <1>4, <1>5, WalkedStep
<1>7. ~torn => moving
  BY <1>2
<1>8. QED
  BY <1>6, <1>7

----------------------------------------------------------------------------
(* Names in an answer *)

\* The name of the question, or of a record: where its cells begin in the body,
\* and what the counters are while the code is in it.
NameAt(query, name, marks, b, questions, answers) ==
    /\ IsWalk(name, marks)
    /\ \/ /\ questions = 1 /\ answers = Len(Records(query.name))
          /\ name = query.name /\ b = 0
          /\ marks \in SUBSET DOMAIN name /\ \A m \in marks : name[m] < LABEL_COMPRESSION
       \/ /\ questions = 0
          /\ \E i \in DOMAIN Records(query.name) :
               /\ answers = Len(Records(query.name)) - i + 1
               /\ name = Records(query.name)[i].name /\ b = Base(query.name, i)
               /\ marks \in SUBSET DOMAIN name

LEMMA NameParts ==
  ASSUME NEW query \in Queries, NEW name, NEW marks, NEW b, NEW questions, NEW answers,
         NameAt(query, name, marks, b, questions, answers)
  PROVE  /\ name \in Seq(Nat) /\ Len(name) \in Nat /\ b \in Nat
         /\ BodyOf(query.name) \in Seq(Nat)
         /\ b + Len(name) <= Len(BodyOf(query.name))
         /\ \A k \in 1 .. Len(name) : BodyOf(query.name)[b + k] = name[k]
<1> DEFINE body == BodyOf(query.name)
<1>1. query.name \in DOMAIN Zone
  BY DEF Queries
<1>2. /\ query.name \in Seq(Nat) /\ Len(query.name) \in Nat
      /\ Zone[query.name].cells \in Seq(Nat) /\ Len(Zone[query.name].cells) \in Nat
  BY <1>1, ZoneOf
<1>3. /\ body \in Seq(Nat) /\ Len(body) = Len(query.name) + 2 + Len(Zone[query.name].cells)
      /\ \A k \in 1 .. Len(query.name) : body[k] = query.name[k]
  BY <1>2, BodyParts DEF BodyOf
<1> HIDE DEF body
<1>4. Len(query.name) <= Len(body)
  <2> DEFINE l == Len(query.name)   c == Len(Zone[query.name].cells)
  <2>1. l \in Nat /\ c \in Nat /\ Len(body) = l + 2 + c
    BY <1>2, <1>3
  <2> HIDE DEF l, c
  <2>2. l <= Len(body)
    BY <2>1
  <2>3. QED
    BY <2>2 DEF l
<1>5. ASSUME name = query.name, b = 0
      PROVE  /\ name \in Seq(Nat) /\ Len(name) \in Nat /\ b \in Nat /\ b + Len(name) <= Len(body)
             /\ \A k \in 1 .. Len(name) : body[b + k] = name[k]
  <2> DEFINE l == Len(name)
  <2>1. l \in Nat /\ l <= Len(body) /\ \A k \in 1 .. l : body[k] = name[k]
    BY <1>2, <1>3, <1>4, <1>5
  <2>2. name \in Seq(Nat)
    BY <1>2, <1>5
  <2> HIDE DEF l
  <2>3. 0 + l = l /\ \A k \in 1 .. l : 0 + k = k
    BY <2>1
  <2>4. QED
    BY <1>5, <2>1, <2>2, <2>3 DEF l
<1>6. ASSUME NEW i \in DOMAIN Records(query.name),
             name = Records(query.name)[i].name, b = Base(query.name, i)
      PROVE  /\ name \in Seq(Nat) /\ Len(name) \in Nat /\ b \in Nat /\ b + Len(name) <= Len(body)
             /\ \A k \in 1 .. Len(name) : body[b + k] = name[k]
  <2> DEFINE r == Records(query.name)[i]   w == Len(RecordCells(r))   l == Len(name)
             d == Len(r.data)
  <2>1. r \in Record
    BY <1>1, RecordOf
  <2>2. name \in Seq(Nat)
    BY <2>1, <1>6 DEF Record
  <2>3. /\ l \in Nat /\ d \in Nat /\ w = l + 4 + d
        /\ \A k \in 1 .. l : RecordCells(r)[k] = name[k]
    BY <2>1, <1>6, RecordParts
  <2>4. /\ b \in Nat /\ b + w <= Len(body)
        /\ \A k \in 1 .. w : body[b + k] = RecordCells(r)[k]
    BY <1>1, <1>6, RecordInBody DEF body
  <2>5. Len(body) \in Nat
    BY <1>3, LenProperties DEF body
  <2> HIDE DEF w, l, d
  <2>6. b + l <= Len(body) /\ \A k \in 1 .. l : k \in 1 .. w
    BY <2>3, <2>4, <2>5
  <2>7. QED
    BY <2>2, <2>3, <2>4, <2>6 DEF l
<1>7. QED
  BY <1>3, <1>5, <1>6 DEF NameAt, body

\* What a section's length says.
LEMMA WalkParts ==
  ASSUME NEW name \in Seq(Nat), NEW marks, IsWalk(name, marks), NEW m \in marks
  PROVE  /\ m \in 1 .. Len(name) /\ name[m] \in 0 .. BYTE - 1
         /\ name[m] = 0 => m = Len(name)
         /\ name[m] \in 1 .. LABEL_COMPRESSION - 1 =>
                m + name[m] + 1 \in marks /\ m + name[m] + 1 <= Len(name)
         /\ name[m] >= LABEL_COMPRESSION => m + 1 = Len(name)
<1>1. Len(name) \in Nat /\ DOMAIN name = 1 .. Len(name)
  BY LenProperties
<1> DEFINE c == name[m]
<1>2. marks \subseteq 1 .. Len(name) /\ m \in 1 .. Len(name)
  BY <1>1 DEF IsWalk
<1>3. \/ c = 0 /\ m = Len(name)
      \/ c \in 1 .. LABEL_COMPRESSION - 1 /\ m + c + 1 \in marks
      \/ c \in LABEL_COMPRESSION .. BYTE - 1 /\ m + 1 = Len(name)
  BY DEF IsWalk
<1> HIDE DEF c
<1>4. m + c + 1 \in marks => m + c + 1 <= Len(name)
  <2> DEFINE l == Len(name)   j == m + c + 1
  <2> HIDE DEF l, j
  <2>1. marks \subseteq 1 .. l /\ l \in Nat
    BY <1>1, <1>2 DEF l
  <2>2. j \in marks => j <= l
    BY <2>1
  <2>3. QED
    BY <2>2 DEF l, j
<1>5. /\ c \in 0 .. BYTE - 1 /\ (c = 0 => m = Len(name))
      /\ c \in 1 .. LABEL_COMPRESSION - 1 => m + c + 1 \in marks
      /\ c >= LABEL_COMPRESSION => m + 1 = Len(name)
  <2> DEFINE j == m + c + 1   l == Len(name)
  <2>1. /\ LABEL_COMPRESSION = 64 /\ BYTE = 256
    BY DEF LABEL_COMPRESSION, BYTE
  <2>2. m \in Int /\ l \in Int
    BY <1>1, <1>2
  <2>3. \/ c = 0 /\ m = l
        \/ c \in 1 .. 63 /\ j \in marks
        \/ c \in 64 .. 255 /\ m + 1 = l
    BY <1>3, <2>1
  <2> HIDE DEF j, l
  <2>4. c \in 0 .. 255 /\ (c = 0 => m = l) /\ (c \in 1 .. 63 => j \in marks) /\ (c >= 64 => m + 1 = l)
    <3>1. CASE c = 0 /\ m = l
      BY <3>1
    <3>2. CASE c \in 1 .. 63 /\ j \in marks
      BY <3>2
    <3>3. CASE c \in 64 .. 255 /\ m + 1 = l
      BY <3>3
    <3>4. QED
      BY <2>3, <3>1, <3>2, <3>3
  <2>5. QED
    BY <2>1, <2>4 DEF j, l
<1>6. QED
  BY <1>2, <1>4, <1>5 DEF c

LEMMA NameIsAt ==
  ASSUME NEW query \in Queries, NEW n \in Nat, InBody(query, n), At("name") \/ At("section")
  PROVE  \E name, marks, b :
             /\ NameAt(query, name, marks, b, cpu.questions, cpu.answers)
             /\ InName(name, marks, n - b)
<1>1. CASE /\ cpu.questions = 1 /\ cpu.answers = Len(Records(query.name))
           /\ InQuestion(query.name, n)
  <2>1. PICK marks \in SUBSET DOMAIN query.name :
            InName(query.name, marks, n) /\ \A m \in marks : query.name[m] < LABEL_COMPRESSION
    BY <1>1 DEF InQuestion, At
  <2>2. NameAt(query, query.name, marks, 0, cpu.questions, cpu.answers)
    BY <1>1, <2>1 DEF NameAt, InName
  <2>3. InName(query.name, marks, n - 0)
    BY <2>1
  <2>4. QED
    BY <2>2, <2>3
<1>2. CASE /\ cpu.questions = 0
           /\ \E i \in DOMAIN Records(query.name) :
                /\ cpu.answers = Len(Records(query.name)) - i + 1
                /\ InRecord(Records(query.name)[i], n - Base(query.name, i))
  <2>1. PICK i \in DOMAIN Records(query.name) :
                /\ cpu.answers = Len(Records(query.name)) - i + 1
                /\ InRecord(Records(query.name)[i], n - Base(query.name, i))
    BY <1>2
  <2> DEFINE name == Records(query.name)[i].name   b == Base(query.name, i)
  <2>2. PICK marks \in SUBSET DOMAIN name : InName(name, marks, n - b)
    BY <2>1 DEF InRecord, At
  <2>3. NameAt(query, name, marks, b, cpu.questions, cpu.answers)
    BY <1>2, <2>1, <2>2 DEF NameAt, InName
  <2>4. QED
    BY <2>2, <2>3
<1>3. QED
  BY <1>1, <1>2 DEF InBody, Records, Base

----------------------------------------------------------------------------
(* The place in an answer *)

\* n cells of the answer to a query of this lookup have been read.
Stands(query, n) ==
    /\ query \in asked /\ query.port = port /\ query.id = iRequestId
    /\ n \in 0 .. Len(BodyOf(query.name)) /\ rest = Behind(query, n)

LEMMA BehindIs ==
  ASSUME NEW query \in Queries, NEW n \in 0 .. Len(BodyOf(query.name))
  PROVE  /\ BodyOf(query.name) \in Seq(Nat) /\ Len(BodyOf(query.name)) \in Nat
         /\ Behind(query, n) \in Seq(Nat)
         /\ Len(Behind(query, n)) = Len(BodyOf(query.name)) - n
         /\ \A i \in 1 .. Len(Behind(query, n)) :
                Behind(query, n)[i] = BodyOf(query.name)[n + i]
         /\ \A k \in Nat : k <= Len(Behind(query, n)) =>
                /\ n + k \in 0 .. Len(BodyOf(query.name))
                /\ SubSeq(Behind(query, n), k + 1, Len(Behind(query, n))) = Behind(query, n + k)
<1> DEFINE body == BodyOf(query.name)   r == Behind(query, n)
<1>1. body \in Seq(Nat) /\ Len(body) \in Nat
  <2>1. query.name \in DOMAIN Zone
    BY DEF Queries
  <2>2. query.name \in Seq(Nat) /\ Zone[query.name].cells \in Seq(Nat)
    BY <2>1, ZoneOf
  <2>3. body \in Seq(Nat)
    BY <2>2, BodyParts DEF BodyOf
  <2>4. QED
    BY <2>3, LenProperties
<1>2. \A j : Behind(query, j) = SubSeq(body, j + 1, Len(body))
  BY DEF Behind, BodyOf
<1>3. n \in 0 .. Len(body) /\ r = SubSeq(body, n + 1, Len(body))
  BY <1>2
<1> HIDE DEF body, r
<1>4. r \in Seq(Nat) /\ Len(r) = Len(body) - n /\ \A i \in 1 .. Len(body) - n : r[i] = body[n + i]
  BY <1>1, <1>3, RestOf
<1>5. ASSUME NEW k \in Nat, k <= Len(r)
      PROVE  n + k \in 0 .. Len(body) /\ SubSeq(r, k + 1, Len(r)) = Behind(query, n + k)
  <2>1. n + k <= Len(body) /\ n + k \in 0 .. Len(body)
    BY <1>1, <1>3, <1>4, <1>5
  <2>2. SubSeq(r, k + 1, Len(r)) = SubSeq(body, n + k + 1, Len(body))
    BY <1>1, <1>3, <2>1, RestOfRest
  <2>3. QED
    BY <1>2, <2>1, <2>2
<1>6. \A i \in 1 .. Len(r) : r[i] = body[n + i]
  BY <1>4
<1>7. QED
  BY <1>1, <1>4, <1>5, <1>6 DEF body, r

LEMMA PlaceOf ==
  ASSUME DnsInv, cpu.pc \in Walking, ~torn
  PROVE  \E query \in Queries : \E n \in Nat : Stands(query, n) /\ InBody(query, n)
<1>1. PICK query \in asked : \E n \in 0 .. Len(BodyOf(query.name)) :
            /\ query.port = port /\ query.id = iRequestId
            /\ rest = Behind(query, n) /\ InBody(query, n)
  BY DEF DnsInv, InAnswer, BodyOf
<1>2. PICK n \in 0 .. Len(BodyOf(query.name)) :
            /\ query.port = port /\ query.id = iRequestId
            /\ rest = Behind(query, n) /\ InBody(query, n)
  BY <1>1
<1>3. query \in Queries
  BY <1>1 DEF DnsInv, TypeOK
<1>4. n \in Nat
  BY <1>2
<1>5. Stands(query, n)
  BY <1>1, <1>2 DEF Stands
<1>6. QED
  BY <1>2, <1>3, <1>4, <1>5

LEMMA RestIs ==
  ASSUME NEW query \in Queries, NEW n \in Nat, Stands(query, n)
  PROVE  /\ Len(BodyOf(query.name)) \in Nat /\ n \in 0 .. Len(BodyOf(query.name))
         /\ Len(rest) = Len(BodyOf(query.name)) - n
         /\ \A j \in 1 .. Len(rest) : rest[j] = BodyOf(query.name)[n + j]
<1> DEFINE r == Behind(query, n)
<1>1. n \in 0 .. Len(BodyOf(query.name))
  BY DEF Stands
<1>2. Len(BodyOf(query.name)) \in Nat /\ Len(r) = Len(BodyOf(query.name)) - n
  BY <1>1, BehindIs
<1>3. \A j \in 1 .. Len(r) : r[j] = BodyOf(query.name)[n + j]
  BY <1>1, BehindIs
<1>4. rest = r
  BY DEF Stands
<1> HIDE DEF r
<1>5. QED
  BY <1>1, <1>2, <1>3, <1>4

LEMMA Moved ==
  ASSUME NEW query \in Queries, NEW n \in Nat, Stands(query, n),
         NEW k \in Nat, k <= Len(rest), rest' = SubSeq(rest, k + 1, Len(rest)),
         UNCHANGED <<port, object, asked>>
  PROVE  Stands(query, n + k)'
<1>1. n \in 0 .. Len(BodyOf(query.name)) /\ rest = Behind(query, n)
  BY DEF Stands
<1>2. \A j \in Nat : j <= Len(Behind(query, n)) =>
          /\ n + j \in 0 .. Len(BodyOf(query.name))
          /\ SubSeq(Behind(query, n), j + 1, Len(Behind(query, n))) = Behind(query, n + j)
  BY <1>1, BehindIs
<1>3. /\ n + k \in 0 .. Len(BodyOf(query.name))
      /\ SubSeq(rest, k + 1, Len(rest)) = Behind(query, n + k)
  BY <1>1, <1>2
<1>4. QED
  BY <1>3 DEF Stands, object

LEMMA Answers ==
  ASSUME NEW query \in Queries, NEW n \in Nat, Stands(query, n)', InBody(query, n)'
  PROVE  InAnswer'
  BY DEF Stands, InAnswer, BodyOf

LEMMA BackInName ==
  ASSUME NEW query \in Queries, NEW n \in Nat, NEW name, NEW marks, NEW b,
         NameAt(query, name, marks, b, cpu'.questions, cpu'.answers), InName(name, marks, n - b)'
  PROVE  InBody(query, n)'
<1>1. CASE /\ cpu'.questions = 1 /\ cpu'.answers = Len(Records(query.name))
           /\ name = query.name /\ b = 0
           /\ marks \in SUBSET DOMAIN name /\ \A m \in marks : name[m] < LABEL_COMPRESSION
  <2>1. n - b = n
    BY <1>1
  <2>2. InName(query.name, marks, n)'
    BY <1>1, <2>1
  <2>3. InQuestion(query.name, n)'
    BY <1>1, <2>2 DEF InQuestion
  <2>4. QED
    BY <1>1, <2>3 DEF InBody, Records
<1>2. ASSUME cpu'.questions = 0, NEW i \in DOMAIN Records(query.name),
             cpu'.answers = Len(Records(query.name)) - i + 1,
             name = Records(query.name)[i].name, b = Base(query.name, i),
             marks \in SUBSET DOMAIN name
      PROVE  InBody(query, n)'
  <2>1. InRecord(Records(query.name)[i], n - Base(query.name, i))'
    BY <1>2 DEF InRecord
  <2>2. QED
    BY <1>2, <2>1 DEF InBody, Records, Base
<1>3. QED
  BY <1>1, <1>2 DEF NameAt

\* The cells that are left begin with those of the name the code is in.
LEMMA NameAhead ==
  ASSUME NEW query \in Queries, NEW n \in Nat, Stands(query, n),
         NEW name, NEW marks, NEW b, NameAt(query, name, marks, b, cpu.questions, cpu.answers),
         NEW m, m = n - b, m >= 0
  PROVE  /\ Len(rest) \in Nat /\ m \in Nat /\ \A k \in Nat : (n + k) - b = m + k
         /\ \A k \in Nat : m + k <= Len(name) => k <= Len(rest)
         /\ m + 1 \in 1 .. Len(name) => rest[1] = name[m + 1]
<1> DEFINE body == BodyOf(query.name)   l == Len(name)   d == Len(body)
<1>1. /\ name \in Seq(Nat) /\ l \in Nat /\ b \in Nat /\ b + l <= d
      /\ \A k \in 1 .. l : body[b + k] = name[k]
  BY NameParts
<1>2. /\ d \in Nat /\ n \in 0 .. d /\ Len(rest) = d - n
      /\ \A i \in 1 .. Len(rest) : rest[i] = body[n + i]
  BY RestIs
<1> HIDE DEF l, d, body
<1>3. m \in Nat /\ Len(rest) \in Nat /\ \A k \in Nat : (n + k) - b = m + k
  BY <1>1, <1>2
<1>4. \A k \in Nat : m + k <= l => k <= Len(rest)
  BY <1>1, <1>2, <1>3
<1>5. m + 1 \in 1 .. l => rest[1] = name[m + 1]
  <2> HAVE m + 1 \in 1 .. l
  <2>1. 1 \in 1 .. Len(rest) /\ n + 1 = b + (m + 1)
    BY <1>1, <1>2, <1>3, <1>4
  <2>2. QED
    BY <1>1, <1>2, <2>1
<1>6. QED
  BY <1>3, <1>4, <1>5 DEF l

\* The same for a record.
LEMMA RecordIsAt ==
  ASSUME NEW query \in Queries, NEW n \in Nat, InBody(query, n),
         cpu.pc \in {"type", "class", "ttl", "rdlength", "answer", "address", "data"}
  PROVE  /\ cpu.questions = 0
         /\ \E i \in DOMAIN Records(query.name) :
                /\ cpu.answers = Len(Records(query.name)) - i + 1
                /\ InRecord(Records(query.name)[i], n - Base(query.name, i))
<1>1. ~InQuestion(query.name, n)
  BY DEF InQuestion, InName, At
<1>2. QED
  BY <1>1 DEF InBody, Records, Base

LEMMA BackInRecord ==
  ASSUME NEW query \in Queries, NEW n, NEW i \in DOMAIN Records(query.name),
         cpu'.questions = 0, cpu'.answers = Len(Records(query.name)) - i + 1,
         InRecord(Records(query.name)[i], n - Base(query.name, i))'
  PROVE  InBody(query, n)'
  BY DEF InBody, Records, Base

\* p cells of the i-th record have been read.
Past(query, i, p) == p \in Nat /\ Stands(query, Base(query.name, i) + p)

LEMMA RecordAhead ==
  ASSUME NEW query \in Queries, NEW i \in DOMAIN Records(query.name), NEW p, Past(query, i, p)
  PROVE  /\ \A k \in Nat : p + k <= Len(RecordCells(Records(query.name)[i])) => k <= Len(rest)
         /\ p + 1 <= Len(RecordCells(Records(query.name)[i])) =>
                1 <= Len(rest) /\ rest[1] = RecordCells(Records(query.name)[i])[p + 1]
<1> DEFINE body == BodyOf(query.name)   d == Len(body)
           b == Base(query.name, i)   z == Len(rest)   n == b + p
           cells == RecordCells(Records(query.name)[i])   w == Len(cells)
<1>1. query.name \in DOMAIN Zone
  BY DEF Queries
<1>2. /\ b \in Nat /\ b + w <= d
      /\ \A k \in 1 .. w : body[b + k] = cells[k]
  BY <1>1, RecordInBody
<1>3. Records(query.name)[i] \in Record
  BY <1>1, RecordOf
<1>4. w \in Nat
  BY <1>3, RecordParts, LenProperties
<1>5. p \in Nat /\ Stands(query, n)
  BY DEF Past
<1>6. n \in Nat
  BY <1>2, <1>5
<1>7. /\ d \in Nat /\ n \in 0 .. d /\ z = d - n
      /\ \A j \in 1 .. z : rest[j] = body[n + j]
  <2> HIDE DEF n
  <2>1. QED
    BY <1>5, <1>6, RestIs
<1>8. n = b + p
  OBVIOUS
<1> HIDE DEF w, d, body, b, z, n, cells
<1>9. d \in Nat /\ n \in Nat /\ n <= d /\ z = d - n
  BY <1>6, <1>7
<1>10. z \in Nat /\ z = d - (b + p) /\ b + w <= d
  BY <1>2, <1>8, <1>9
<1>11. \A k \in Nat : p + k <= w => k <= z
  BY <1>2, <1>4, <1>5, <1>9, <1>10
<1>12. ASSUME p + 1 <= w PROVE 1 <= z /\ rest[1] = cells[p + 1]
  <2>1. 1 <= z
    BY <1>11, <1>12
  <2>2. 1 \in 1 .. z /\ p + 1 \in 1 .. w /\ n + 1 = b + (p + 1)
    BY <1>2, <1>4, <1>5, <1>8, <1>10, <1>12, <2>1
  <2>3. rest[1] = body[n + 1] /\ body[b + (p + 1)] = cells[p + 1]
    BY <1>2, <1>7, <2>2
  <2>4. QED
    BY <2>1, <2>2, <2>3
<1>13. QED
  BY <1>11, <1>12 DEF w, z, cells

----------------------------------------------------------------------------
(* The steps through a name *)

LEMMA PlaceInName ==
  ASSUME DnsInv, ~torn, At("name") \/ At("section")
  PROVE  \E query \in Queries : \E n \in Nat : \E name, marks, b :
             /\ Stands(query, n) /\ InName(name, marks, n - b)
             /\ NameAt(query, name, marks, b, cpu.questions, cpu.answers)
<1>1. cpu.pc \in Walking
  BY DEF At, Walking
<1>2. PICK query \in Queries : \E n \in Nat : Stands(query, n) /\ InBody(query, n)
  BY <1>1, PlaceOf
<1>3. PICK n \in Nat : Stands(query, n) /\ InBody(query, n)
  BY <1>2
<1>4. \E name, marks, b : /\ NameAt(query, name, marks, b, cpu.questions, cpu.answers)
                          /\ InName(name, marks, n - b)
  BY <1>3, NameIsAt
<1>5. QED
  BY <1>3, <1>4

LEMMA ReadLengthStep ==
  ASSUME DnsInv, ReadLength
  PROVE  DnsInv' /\ (~torn /\ torn' => moving)
<1>1. /\ TypeOK /\ cpu \in Locals /\ torn \in BOOLEAN /\ moving \in BOOLEAN
      /\ cpu.pc = "name" /\ cpu.answers > 0
      /\ UNCHANGED <<object, result, asked>>
  BY Locally DEF DnsInv, CountsRight, ReadLength, At, Walking, Parse
<1>2. ASSUME NEW len \in 0 .. BYTE - 1,
             cpu' = [cpu EXCEPT !["len"] = len, !.pc = "section"]
      PROVE  /\ cpu' \in Locals /\ cpu'.pc = "section" /\ cpu'.len = len
             /\ cpu'.questions = cpu.questions /\ cpu'.answers = cpu.answers
             /\ CountsRight' /\ AddressChecked'
  <2>1. len \in UNSET .. BYTE - 1
    BY DEF UNSET, BYTE
  <2>2. cpu' \in Locals
    BY <1>1, <1>2, <2>1 DEF Locals, Labels
  <2>3. /\ cpu'.pc = "section" /\ cpu'.len = len
        /\ cpu'.questions = cpu.questions /\ cpu'.answers = cpu.answers
    BY <1>1, <1>2 DEF Locals
  <2>4. QED
    BY <1>1, <2>2, <2>3 DEF CountsRight, AddressChecked, At
<1>3. ASSUME ~torn
      PROVE  /\ Len(rest) >= 1
             /\ (/\ rest' = SubSeq(rest, 1 + 1, Len(rest)) /\ UNCHANGED port
                 /\ cpu'.pc = "section" /\ cpu'.len = rest[1] % BYTE
                 /\ cpu'.questions = cpu.questions /\ cpu'.answers = cpu.answers) => InAnswer'
  <2>0. PICK query \in Queries, n \in Nat : \E name, marks, b :
             /\ Stands(query, n) /\ InName(name, marks, n - b)
             /\ NameAt(query, name, marks, b, cpu.questions, cpu.answers)
    BY <1>1, <1>3, PlaceInName DEF At
  <2>1. PICK name, marks, b :
             /\ Stands(query, n) /\ InName(name, marks, n - b)
             /\ NameAt(query, name, marks, b, cpu.questions, cpu.answers)
    BY <2>0
  <2> DEFINE m == n - b
  <2>2. name \in Seq(Nat) /\ Len(name) \in Nat /\ b \in Nat
    BY <2>1, NameParts
  <2>3. m + 1 \in marks /\ IsWalk(name, marks)
    <3>1. n - b + 1 \in marks /\ IsWalk(name, marks)
      BY <1>1, <2>1 DEF InName, At
    <3>2. QED
      BY <3>1
  <2>4. m \in Int
    BY <2>2
  <2> HIDE DEF m
  <2>5. m + 1 \in 1 .. Len(name) /\ name[m + 1] \in 0 .. BYTE - 1
    BY <2>2, <2>3, WalkParts
  <2>6. m >= 0 /\ m + 1 <= Len(name)
    BY <2>4, <2>5
  <2>7. /\ (n + 1) - b = m + 1 /\ 1 <= Len(rest) /\ rest[1] = name[m + 1]
    BY <2>1, <2>5, <2>6, NameAhead DEF m
  <2>8. rest[1] % BYTE = name[m + 1]
    BY <2>5, <2>7, Small
  <2>9. ASSUME rest' = SubSeq(rest, 1 + 1, Len(rest)), UNCHANGED port,
               cpu'.pc = "section", cpu'.len = rest[1] % BYTE,
               cpu'.questions = cpu.questions, cpu'.answers = cpu.answers
        PROVE  InAnswer'
    <3>1. Stands(query, n + 1)'
      BY <1>1, <2>1, <2>7, <2>9, Moved
    <3>2. InName(name, marks, (n + 1) - b)'
      BY <2>3, <2>7, <2>8, <2>9 DEF InName, At
    <3>3. InBody(query, n + 1)'
      BY <2>1, <2>9, <3>2, BackInName
    <3>4. QED
      BY <3>1, <3>3, Answers
  <2>10. QED
    BY <2>7, <2>9
<1>4. CASE Read(1) /\ cpu' = [cpu EXCEPT !["len"] = got'[1] % BYTE, !.pc = "section"]
  <2>1. got'[1] = rest[1] /\ got'[1] \in Nat
    BY <1>1, <1>4, ReadOne
  <2>2. got'[1] % BYTE \in 0 .. BYTE - 1
    BY <2>1, Mods
  <2>3. /\ cpu' \in Locals /\ cpu'.pc = "section" /\ cpu'.len = rest[1] % BYTE
        /\ cpu'.questions = cpu.questions /\ cpu'.answers = cpu.answers
        /\ CountsRight' /\ AddressChecked'
    BY <1>2, <1>4, <2>1, <2>2
  <2>4. (~torn /\ rest' = SubSeq(rest, 1 + 1, Len(rest)) /\ UNCHANGED port) => InAnswer'
    BY <1>3, <2>3
  <2>5. DnsInv' /\ torn' = torn
    BY <1>1, <1>4, <2>3, <2>4, TakeStep DEF Walking
  <2>6. QED
    BY <2>5
<1>5. ASSUME ReadFails,
             NEW value \in IF cpu.len = UNSET THEN {0, 1, BYTE - 1} ELSE {cpu.len},
             cpu' = [cpu EXCEPT !["len"] = value, !.pc = "section"]
      PROVE  DnsInv' /\ (~torn => moving)
  <2>1. value \in 0 .. BYTE - 1
    <3>1. cpu.len \in UNSET .. BYTE - 1
      BY Locally
    <3>2. CASE cpu.len = UNSET
      <4>1. value \in {0, 1, BYTE - 1}
        BY <1>5, <3>2
      <4>2. QED
        BY <4>1 DEF BYTE
    <3>3. CASE cpu.len # UNSET
      <4> DEFINE l == cpu.len
      <4> HIDE DEF l
      <4>1. l \in UNSET .. BYTE - 1 /\ l # UNSET
        BY <3>1, <3>3 DEF l
      <4>2. l \in 0 .. BYTE - 1
        BY <4>1 DEF UNSET, BYTE
      <4>3. QED
        BY <1>5, <3>3, <4>2 DEF l
    <3>4. QED
      BY <3>2, <3>3
  <2>2. cpu' \in Locals /\ cpu'.pc = "section" /\ CountsRight' /\ AddressChecked'
    BY <1>2, <1>5, <2>1
  <2>3. QED
    BY <1>1, <1>3, <1>5, <2>2, FailStep DEF Walking
<1>6. CASE ReadFails /\ \E value \in IF cpu.len = UNSET THEN {0, 1, BYTE - 1} ELSE {cpu.len} :
                              cpu' = [cpu EXCEPT !["len"] = value, !.pc = "section"]
  BY <1>5, <1>6
<1>7. QED
  BY <1>4, <1>6 DEF ReadLength, ReadInto

LEMMA SkipSectionStep ==
  ASSUME DnsInv, SkipSection
  PROVE  DnsInv' /\ (~torn /\ torn' => moving)
<1>0. PICK len \in UNSET .. BYTE - 1 : cpu.len = len
  BY Locally
<1>1. /\ cpu \in Locals /\ cpu.pc = "section" /\ cpu.answers > 0
      /\ len > 0 /\ ~(cpu.questions = 0 /\ len >= LABEL_COMPRESSION)
      /\ SkipCells(len) /\ UNCHANGED <<object, result, asked>>
      /\ cpu' = [cpu EXCEPT !.pc = "name", !.len = BYTE - 1]
  BY <1>0, Locally DEF DnsInv, CountsRight, SkipSection, IsPointer, At, Walking, Parse
<1>2. len \in 1 .. BYTE - 1 /\ len \in Nat /\ BYTE - 1 \in UNSET .. BYTE - 1
  BY <1>0, <1>1 DEF UNSET, BYTE
<1>3. /\ cpu' \in Locals /\ cpu'.pc = "name"
      /\ cpu'.questions = cpu.questions /\ cpu'.answers = cpu.answers
  BY <1>1, <1>2 DEF Locals, Labels
<1>4. CountsRight' /\ AddressChecked'
  BY <1>1, <1>3 DEF CountsRight, AddressChecked, At
<1>5. ASSUME ~torn
      PROVE  /\ len <= Len(rest)
             /\ rest' = SubSeq(rest, len + 1, Len(rest)) /\ UNCHANGED port => InAnswer'
  <2>0. PICK query \in Queries, n \in Nat : \E name, marks, b :
             /\ Stands(query, n) /\ InName(name, marks, n - b)
             /\ NameAt(query, name, marks, b, cpu.questions, cpu.answers)
    BY <1>1, <1>5, PlaceInName DEF At
  <2>1. PICK name, marks, b :
             /\ Stands(query, n) /\ InName(name, marks, n - b)
             /\ NameAt(query, name, marks, b, cpu.questions, cpu.answers)
    BY <2>0
  <2> DEFINE m == n - b
  <2>2. name \in Seq(Nat) /\ Len(name) \in Nat /\ b \in Nat
    BY <2>1, NameParts
  <2>3. m \in marks /\ IsWalk(name, marks) /\ len = name[m]
    BY <1>0, <1>1, <2>1 DEF InName, At
  <2>4. cpu.questions # 0 => \A k \in marks : name[k] < LABEL_COMPRESSION
    BY <2>1 DEF NameAt
  <2>5. m \in Int
    BY <2>2
  <2> HIDE DEF m
  <2>6. len \in 1 .. LABEL_COMPRESSION - 1
    <3>1. len < LABEL_COMPRESSION
      <4>1. CASE cpu.questions # 0
        BY <2>3, <2>4, <4>1
      <4>2. CASE cpu.questions = 0
        BY <1>1, <1>2, <4>2 DEF LABEL_COMPRESSION
      <4>3. QED
        BY <4>1, <4>2
    <3>2. QED
      BY <1>2, <3>1 DEF LABEL_COMPRESSION
  <2>7. m \in 1 .. Len(name) /\ m + len + 1 \in marks /\ m + len + 1 <= Len(name)
    BY <2>2, <2>3, <2>6, WalkParts
  <2>8. m >= 0 /\ m + len <= Len(name)
    BY <1>2, <2>2, <2>7
  <2>9. len <= Len(rest) /\ (n + len) - b = m + len
    BY <1>2, <2>1, <2>8, NameAhead DEF m
  <2>10. ASSUME rest' = SubSeq(rest, len + 1, Len(rest)), UNCHANGED port
         PROVE  InAnswer'
    <3>1. Stands(query, n + len)'
      BY <1>1, <1>2, <2>1, <2>9, <2>10, Moved
    <3>2. InName(name, marks, (n + len) - b)'
      BY <1>3, <2>3, <2>7, <2>9 DEF InName, At
    <3>3. n + len \in Nat
      BY <1>2
    <3> DEFINE p == n + len
    <3> HIDE DEF p
    <3>4. InBody(query, p)'
      BY <1>3, <2>1, <3>2, <3>3, BackInName DEF p
    <3>5. QED
      BY <3>1, <3>3, <3>4, Answers DEF p
  <2>11. QED
    BY <2>9, <2>10
<1>6. QED
  BY <1>1, <1>2, <1>3, <1>4, <1>5, SkipStep DEF Walking

LEMMA EndNameStep ==
  ASSUME DnsInv, EndName
  PROVE  DnsInv' /\ torn' = torn
<1>1. /\ TypeOK /\ cpu \in Locals /\ cpu.pc = "section" /\ cpu.answers > 0 /\ cpu.len = 0
      /\ cpu.questions \in Nat
      /\ UNCHANGED <<object, result, asked>> /\ UNCHANGED <<socket, torn>>
      /\ cpu' = [cpu EXCEPT !.pc = IF cpu.questions > 0 THEN "question" ELSE "type"]
  BY Locally DEF DnsInv, CountsRight, EndName, At, Walking, Parse, Goto
<1>2. /\ cpu' \in Locals /\ cpu'.pc = IF cpu.questions > 0 THEN "question" ELSE "type"
      /\ cpu'.questions = cpu.questions /\ cpu'.answers = cpu.answers
  BY <1>1 DEF Locals, Labels
<1>3. CountsRight' /\ AddressChecked'
  BY <1>1, <1>2 DEF CountsRight, AddressChecked, At
<1>4. ASSUME ~torn
      PROVE  InAnswer'
  <2>0. PICK query \in Queries, n \in Nat : \E name, marks, b :
             /\ Stands(query, n) /\ InName(name, marks, n - b)
             /\ NameAt(query, name, marks, b, cpu.questions, cpu.answers)
    BY <1>1, <1>4, PlaceInName DEF At
  <2>1. PICK name, marks, b :
             /\ Stands(query, n) /\ InName(name, marks, n - b)
             /\ NameAt(query, name, marks, b, cpu.questions, cpu.answers)
    BY <2>0
  <2>2. name \in Seq(Nat) /\ b \in Nat
    BY <2>1, NameParts
  <2>3. n - b \in marks /\ IsWalk(name, marks) /\ name[n - b] = 0
    BY <1>1, <2>1 DEF InName, At
  <2>4. n - b = Len(name)
    BY <2>2, <2>3, WalkParts
  <2>5. Stands(query, n)'
    BY <1>1, <2>1 DEF Stands, socket, object
  <2>6. CASE cpu.questions = 1 /\ cpu.answers = Len(Records(query.name)) /\ name = query.name /\ b = 0
    <3>1. n = Len(query.name) /\ cpu'.pc = "question"
      BY <1>2, <2>4, <2>6
    <3>2. InBody(query, n)'
      BY <1>2, <2>6, <3>1 DEF InBody, InQuestion, Records, At
    <3>3. QED
      BY <2>5, <3>2, Answers
  <2>7. ASSUME cpu.questions = 0, NEW i \in DOMAIN Records(query.name),
               cpu.answers = Len(Records(query.name)) - i + 1,
               name = Records(query.name)[i].name, b = Base(query.name, i)
        PROVE  InAnswer'
    <3>1. InRecord(Records(query.name)[i], n - Base(query.name, i))'
      BY <1>2, <2>4, <2>7 DEF InRecord, At
    <3>2. InBody(query, n)'
      BY <1>2, <2>7, <3>1, BackInRecord
    <3>3. QED
      BY <2>5, <3>2, Answers
  <2>8. QED
    BY <2>1, <2>6, <2>7 DEF NameAt
<1>5. InAnswer'
  <2>1. CASE torn
    BY <1>1, <2>1 DEF InAnswer
  <2>2. QED
    BY <1>4, <2>1
<1>6. Quiet
  BY <1>1 DEF Quiet, TypeOK, socket
<1>7. cpu.pc \notin {"idle", "lookup"} /\ cpu'.pc \in Walking
  BY <1>1, <1>2 DEF Walking
<1>8. DnsInv'
  BY <1>1, <1>2, <1>3, <1>5, <1>6, <1>7, WalkedStep
<1>9. QED
  BY <1>1, <1>8

LEMMA SkipPointerStep ==
  ASSUME DnsInv, SkipPointer
  PROVE  DnsInv' /\ (~torn /\ torn' => moving)
<1>1. /\ cpu \in Locals /\ cpu.pc = "section" /\ cpu.answers > 0
      /\ cpu.questions = 0 /\ cpu.len >= LABEL_COMPRESSION
      /\ SkipCells(1) /\ UNCHANGED <<object, result, asked>>
      /\ cpu' = [cpu EXCEPT !.pc = "type"]
  BY Locally DEF DnsInv, CountsRight, SkipPointer, IsPointer, At, Walking, Parse, Goto
<1>2. /\ cpu' \in Locals /\ cpu'.pc = "type"
      /\ cpu'.questions = cpu.questions /\ cpu'.answers = cpu.answers
  BY <1>1 DEF Locals, Labels
<1>3. CountsRight' /\ AddressChecked'
  BY <1>1, <1>2 DEF CountsRight, AddressChecked, At
<1>4. ASSUME ~torn
      PROVE  /\ 1 <= Len(rest)
             /\ rest' = SubSeq(rest, 1 + 1, Len(rest)) /\ UNCHANGED port => InAnswer'
  <2>0. PICK query \in Queries, n \in Nat : \E name, marks, b :
             /\ Stands(query, n) /\ InName(name, marks, n - b)
             /\ NameAt(query, name, marks, b, cpu.questions, cpu.answers)
    BY <1>1, <1>4, PlaceInName DEF At
  <2>1. PICK name, marks, b :
             /\ Stands(query, n) /\ InName(name, marks, n - b)
             /\ NameAt(query, name, marks, b, cpu.questions, cpu.answers)
    BY <2>0
  <2> DEFINE m == n - b
  <2>2. name \in Seq(Nat) /\ Len(name) \in Nat /\ b \in Nat
    BY <2>1, NameParts
  <2>3. m \in marks /\ IsWalk(name, marks) /\ name[m] >= LABEL_COMPRESSION
    BY <1>1, <2>1 DEF InName, At
  <2>4. PICK i \in DOMAIN Records(query.name) :
               /\ cpu.answers = Len(Records(query.name)) - i + 1
               /\ name = Records(query.name)[i].name /\ b = Base(query.name, i)
    BY <1>1, <2>1 DEF NameAt
  <2>5. m \in Int
    BY <2>2
  <2> HIDE DEF m
  <2>6. m \in 1 .. Len(name) /\ m + 1 = Len(name)
    BY <2>2, <2>3, WalkParts
  <2>7. m >= 0 /\ m + 1 <= Len(name)
    BY <2>2, <2>6
  <2>8. 1 <= Len(rest) /\ (n + 1) - b = m + 1
    BY <2>1, <2>7, NameAhead DEF m
  <2>9. ASSUME rest' = SubSeq(rest, 1 + 1, Len(rest)), UNCHANGED port
        PROVE  InAnswer'
    <3>1. Stands(query, n + 1)'
      BY <1>1, <2>1, <2>8, <2>9, Moved
    <3>2. InRecord(Records(query.name)[i], (n + 1) - Base(query.name, i))'
      BY <1>2, <2>4, <2>6, <2>8 DEF InRecord, At
    <3>3. InBody(query, n + 1)'
      BY <1>1, <1>2, <2>4, <3>2, BackInRecord
    <3>4. QED
      BY <3>1, <3>3, Answers
  <2>10. QED
    BY <2>8, <2>9
<1>5. QED
  BY <1>1, <1>2, <1>3, <1>4, SkipStep DEF Walking

----------------------------------------------------------------------------
(* The steps through a record *)

\* A record's fields have the widths of the locals they are read into.
LEMMA FieldsFit ==
  ASSUME NEW name \in DOMAIN Zone, NEW i \in DOMAIN Records(name)
  PROVE  LET r == Records(name)[i]
         IN  /\ r \in Record /\ Len(r.name) \in Nat /\ Len(r.data) \in Nat
             /\ r.type \in 0 .. WORD - 1 /\ r.class \in 0 .. WORD - 1
             /\ Len(r.data) \in 0 .. WORD - 1
             /\ Len(RecordCells(r)) = Len(r.name) + 4 + Len(r.data)
<1> DEFINE r == Records(name)[i]
<1>1. r \in Record /\ Len(r.data) < WORD
  BY RecordOf
<1> HIDE DEF r
<1>2. /\ Len(r.name) \in Nat /\ Len(r.data) \in Nat
      /\ Len(RecordCells(r)) = Len(r.name) + 4 + Len(r.data)
  BY <1>1, RecordParts
<1>3. r.type \in 0 .. WORD - 1 /\ r.class \in 0 .. WORD - 1
  BY <1>1 DEF Record
<1>4. Len(r.data) \in 0 .. WORD - 1
  <2> DEFINE d == Len(r.data)
  <2>1. d \in Nat /\ d < WORD /\ WORD \in Nat
    BY <1>1, <1>2 DEF WORD
  <2> HIDE DEF d
  <2>2. d \in 0 .. WORD - 1
    BY <2>1
  <2>3. QED
    BY <2>2 DEF d
<1>5. QED
  BY <1>1, <1>2, <1>3, <1>4 DEF r

InRecordLabels == {"type", "class", "ttl", "rdlength", "answer", "address", "data"}

LEMMA PlaceInRecord ==
  ASSUME DnsInv, ~torn, cpu.pc \in InRecordLabels
  PROVE  \E query \in Queries : \E i \in DOMAIN Records(query.name) : \E p \in Nat :
             /\ Past(query, i, p) /\ cpu.questions = 0
             /\ cpu.answers = Len(Records(query.name)) - i + 1
             /\ InRecord(Records(query.name)[i], p)
<1>1. cpu.pc \in Walking
  BY DEF Walking, InRecordLabels
<1>2. PICK query \in Queries : \E n \in Nat : Stands(query, n) /\ InBody(query, n)
  BY <1>1, PlaceOf
<1>3. PICK n \in Nat : Stands(query, n) /\ InBody(query, n)
  BY <1>2
<1>4. /\ cpu.questions = 0
      /\ \E i \in DOMAIN Records(query.name) :
             /\ cpu.answers = Len(Records(query.name)) - i + 1
             /\ InRecord(Records(query.name)[i], n - Base(query.name, i))
  BY <1>3, RecordIsAt DEF InRecordLabels
<1>5. PICK i \in DOMAIN Records(query.name) :
             /\ cpu.answers = Len(Records(query.name)) - i + 1
             /\ InRecord(Records(query.name)[i], n - Base(query.name, i))
  BY <1>4
<1> DEFINE b == Base(query.name, i)   l == Len(Records(query.name)[i].name)   p == n - b
<1>6. query.name \in DOMAIN Zone
  BY DEF Queries
<1>7. b \in Nat /\ l \in Nat
  BY <1>6, RecordInBody, FieldsFit
<1>8. p \in {l, l + 1, l + 2, l + 3, l + 4}
  BY <1>5 DEF InRecord, InName, InRecordLabels, At
<1> HIDE DEF b, l
<1>9. p \in Nat /\ b + p = n
  BY <1>7, <1>8
<1>10. InRecord(Records(query.name)[i], p)
  BY <1>5 DEF b
<1> HIDE DEF p
<1>11. Past(query, i, p)
  BY <1>3, <1>9 DEF Past, b
<1>12. QED
  BY <1>4, <1>5, <1>9, <1>10, <1>11

\* k cells on in the same record.
LEMMA MovedInRecord ==
  ASSUME NEW query \in Queries, NEW i \in DOMAIN Records(query.name),
         NEW p \in Nat, Past(query, i, p),
         NEW k \in Nat, p + k <= Len(RecordCells(Records(query.name)[i])),
         rest' = SubSeq(rest, k + 1, Len(rest)), UNCHANGED <<port, object, asked>>,
         cpu'.questions = 0, cpu'.answers = Len(Records(query.name)) - i + 1,
         InRecord(Records(query.name)[i], p + k)'
  PROVE  InAnswer'
<1> DEFINE b == Base(query.name, i)   n == b + p   q == n + k
<1>1. k <= Len(rest)
  BY RecordAhead
<1>2. b \in Nat
  <2>1. query.name \in DOMAIN Zone
    BY DEF Queries
  <2>2. QED
    BY <2>1, RecordInBody
<1>3. Stands(query, n)
  BY DEF Past
<1> HIDE DEF b
<1>4. n \in Nat /\ q \in Nat /\ q - b = p + k
  BY <1>2
<1>5. Stands(query, q)'
  <2> HIDE DEF n
  <2>1. QED
    BY <1>1, <1>3, <1>4, Moved
<1> HIDE DEF n, q
<1>6. InRecord(Records(query.name)[i], q - b)'
  BY <1>4
<1>7. InBody(query, q)'
  BY <1>4, <1>6, BackInRecord DEF b
<1>8. QED
  BY <1>4, <1>5, <1>7, Answers

LEMMA FieldStep ==
  ASSUME DnsInv, NEW field, NEW label, NEW others, At(field),
         \/ field = "type" /\ label = "class"
         \/ field = "class" /\ label = "ttl"
         \/ field = "rdlength" /\ label = "answer",
         \A value \in others : value \in 0 .. WORD - 1,
         ReadInto(field, WORD, others, label), Parse
  PROVE  DnsInv' /\ (~torn /\ torn' => moving)
<1>1. /\ cpu \in Locals /\ TypeOK /\ cpu.pc = field /\ cpu.answers > 0
      /\ UNCHANGED <<object, result, asked>> /\ cpu.pc \in Walking /\ field \in InRecordLabels
  BY Locally DEF DnsInv, CountsRight, At, Walking, Parse, InRecordLabels
<1>2. ASSUME NEW v \in 0 .. WORD - 1, cpu' = [cpu EXCEPT ![field] = v, !.pc = label]
      PROVE  /\ cpu' \in Locals /\ cpu'.pc = label /\ cpu'.pc \in Walking
             /\ cpu'.questions = cpu.questions /\ cpu'.answers = cpu.answers
             /\ cpu'.type = IF field = "type" THEN v ELSE cpu.type
             /\ cpu'.class = IF field = "class" THEN v ELSE cpu.class
             /\ cpu'.rdlength = IF field = "rdlength" THEN v ELSE cpu.rdlength
             /\ CountsRight' /\ AddressChecked'
  <2>1. /\ cpu' \in Locals /\ cpu'.pc = label
        /\ cpu'.questions = cpu.questions /\ cpu'.answers = cpu.answers
        /\ cpu'.type = IF field = "type" THEN v ELSE cpu.type
        /\ cpu'.class = IF field = "class" THEN v ELSE cpu.class
        /\ cpu'.rdlength = IF field = "rdlength" THEN v ELSE cpu.rdlength
    <3>1. CASE field = "type" /\ label = "class"
      BY <1>1, <1>2, <3>1 DEF Locals, Labels
    <3>2. CASE field = "class" /\ label = "ttl"
      BY <1>1, <1>2, <3>2 DEF Locals, Labels
    <3>3. CASE field = "rdlength" /\ label = "answer"
      BY <1>1, <1>2, <3>3 DEF Locals, Labels
    <3>4. QED
      BY <3>1, <3>2, <3>3
  <2>2. CountsRight' /\ AddressChecked' /\ cpu'.pc \in Walking
    BY <1>1, <2>1 DEF CountsRight, AddressChecked, At, Walking
  <2>3. QED
    BY <2>1, <2>2
<1>3. ASSUME ~torn
      PROVE  /\ 1 <= Len(rest)
             /\ (/\ rest' = SubSeq(rest, 1 + 1, Len(rest)) /\ UNCHANGED port
                 /\ cpu'.pc = label
                 /\ cpu'.questions = cpu.questions /\ cpu'.answers = cpu.answers
                 /\ cpu'.type = IF field = "type" THEN rest[1] % WORD ELSE cpu.type
                 /\ cpu'.class = IF field = "class" THEN rest[1] % WORD ELSE cpu.class
                 /\ cpu'.rdlength = IF field = "rdlength" THEN rest[1] % WORD ELSE cpu.rdlength)
                => InAnswer'
  <2>1. PICK query \in Queries : \E i \in DOMAIN Records(query.name) : \E p \in Nat :
             /\ Past(query, i, p) /\ cpu.questions = 0
             /\ cpu.answers = Len(Records(query.name)) - i + 1
             /\ InRecord(Records(query.name)[i], p)
    BY <1>1, <1>3, PlaceInRecord
  <2>2. PICK i \in DOMAIN Records(query.name), p \in Nat :
             /\ Past(query, i, p) /\ cpu.questions = 0
             /\ cpu.answers = Len(Records(query.name)) - i + 1
             /\ InRecord(Records(query.name)[i], p)
    BY <2>1
  <2> DEFINE r == Records(query.name)[i]
  <2>5. query.name \in DOMAIN Zone
    BY DEF Queries
  <2>6. /\ r \in Record /\ Len(r.name) \in Nat /\ Len(r.data) \in Nat
        /\ r.type \in 0 .. WORD - 1 /\ r.class \in 0 .. WORD - 1
        /\ Len(r.data) \in 0 .. WORD - 1
        /\ Len(RecordCells(r)) = Len(r.name) + 4 + Len(r.data)
    BY <2>5, FieldsFit
  <2>7. InRecord(r, p)
    BY <2>2
  <2> HIDE DEF r
  <2>8. \/ field = "type" /\ p = Len(r.name)
        \/ field = "class" /\ p = Len(r.name) + 1 /\ cpu.type = r.type
        \/ /\ field = "rdlength" /\ p = Len(r.name) + 3
           /\ cpu.type = r.type /\ cpu.class = r.class
    BY <1>1, <2>7 DEF InRecord, InName, At
  <2> DEFINE l == Len(r.name)   d == Len(r.data)   w == Len(RecordCells(r))
             f == IF field = "type" THEN r.type
                  ELSE IF field = "class" THEN r.class ELSE d
  <2>9. /\ RecordCells(r)[l + 1] = r.type /\ RecordCells(r)[l + 2] = r.class
        /\ RecordCells(r)[l + 4] = d
    BY <2>6, RecordParts
  <2>10. f \in 0 .. WORD - 1
    BY <2>6
  <2>11. p \in Nat /\ p + 1 \in 1 .. w /\ RecordCells(r)[p + 1] = f
    <3>1. l \in Nat /\ d \in Nat /\ w = l + 4 + d
      BY <2>6
    <3> HIDE DEF l, d, w
    <3>2. CASE field = "type" /\ p = l
      BY <2>9, <3>1, <3>2
    <3>3. CASE field = "class" /\ p = l + 1
      <4>1. p + 1 = l + 2 /\ p + 1 \in 1 .. w /\ p \in Nat
        BY <3>1, <3>3
      <4>2. QED
        BY <2>9, <3>3, <4>1
    <3>4. CASE field = "rdlength" /\ p = l + 3
      <4>1. p + 1 = l + 4 /\ p + 1 \in 1 .. w /\ p \in Nat
        BY <3>1, <3>4
      <4>2. QED
        BY <2>9, <3>4, <4>1
    <3>5. QED
      BY <2>8, <3>2, <3>3, <3>4 DEF l
  <2> HIDE DEF f, l, d, w
  <2>12. p + 1 <= w
    BY <2>11
  <2>13. 1 <= Len(rest) /\ rest[1] = f
    <3>1. 1 <= Len(rest) /\ rest[1] = RecordCells(r)[p + 1]
      BY <2>2, <2>12, RecordAhead DEF w, r
    <3>2. QED
      BY <2>11, <3>1
  <2>14. rest[1] % WORD = f
    BY <2>10, <2>13, Small
  <2>15. ASSUME rest' = SubSeq(rest, 1 + 1, Len(rest)), UNCHANGED port,
                cpu'.pc = label,
                cpu'.questions = cpu.questions, cpu'.answers = cpu.answers,
                cpu'.type = IF field = "type" THEN f ELSE cpu.type,
                cpu'.class = IF field = "class" THEN f ELSE cpu.class,
                cpu'.rdlength = IF field = "rdlength" THEN f ELSE cpu.rdlength
         PROVE  InAnswer'
    <3>1. CASE field = "type" /\ label = "class" /\ p = l
      <4>1. InRecord(r, p + 1)'
        BY <2>15, <3>1 DEF InRecord, At, f, l
      <4>2. QED
        BY <1>1, <2>2, <2>12, <2>15, <4>1, MovedInRecord DEF w, r
    <3>2. CASE field = "class" /\ label = "ttl" /\ p = l + 1 /\ cpu.type = r.type
      <4>1. p + 1 = l + 2
        BY <2>6, <3>2 DEF l
      <4>2. InRecord(r, p + 1)'
        BY <2>15, <3>2, <4>1 DEF InRecord, At, f, l
      <4>3. QED
        BY <1>1, <2>2, <2>12, <2>15, <4>2, MovedInRecord DEF w, r
    <3>3. CASE /\ field = "rdlength" /\ label = "answer" /\ p = l + 3
               /\ cpu.type = r.type /\ cpu.class = r.class
      <4>1. p + 1 = l + 4
        BY <2>6, <3>3 DEF l
      <4>2. InRecord(r, p + 1)'
        BY <2>15, <3>3, <4>1 DEF InRecord, At, f, l, d
      <4>3. QED
        BY <1>1, <2>2, <2>12, <2>15, <4>2, MovedInRecord DEF w, r
    <3>4. QED
      BY <2>8, <3>1, <3>2, <3>3 DEF l
  <2>16. QED
    BY <2>13, <2>14, <2>15
<1>4. CASE Read(1) /\ cpu' = [cpu EXCEPT ![field] = got'[1] % WORD, !.pc = label]
  <2>1. got'[1] = rest[1] /\ got'[1] \in Nat
    BY <1>1, <1>4, ReadOne
  <2>2. got'[1] % WORD \in 0 .. WORD - 1
    BY <2>1, Mods
  <2>3. /\ cpu' \in Locals /\ cpu'.pc = label /\ cpu'.pc \in Walking
        /\ cpu'.questions = cpu.questions /\ cpu'.answers = cpu.answers
        /\ cpu'.type = IF field = "type" THEN rest[1] % WORD ELSE cpu.type
        /\ cpu'.class = IF field = "class" THEN rest[1] % WORD ELSE cpu.class
        /\ cpu'.rdlength = IF field = "rdlength" THEN rest[1] % WORD ELSE cpu.rdlength
        /\ CountsRight' /\ AddressChecked'
    BY <1>2, <1>4, <2>1, <2>2
  <2>4. (~torn /\ rest' = SubSeq(rest, 1 + 1, Len(rest)) /\ UNCHANGED port) => InAnswer'
    BY <1>3, <2>3
  <2>5. DnsInv' /\ torn' = torn
    BY <1>1, <1>4, <2>3, <2>4, TakeStep
  <2>6. QED
    BY <2>5
<1>5. ASSUME ReadFails, NEW value \in others,
             cpu' = [cpu EXCEPT ![field] = value, !.pc = label]
      PROVE  DnsInv' /\ (~torn => moving)
  <2>1. cpu' \in Locals /\ cpu'.pc \in Walking /\ CountsRight' /\ AddressChecked'
    BY <1>2, <1>5
  <2>2. QED
    BY <1>1, <1>3, <1>5, <2>1, FailStep
<1>6. CASE /\ ReadFails
           /\ \E value \in others : cpu' = [cpu EXCEPT ![field] = value, !.pc = label]
  BY <1>5, <1>6
<1>7. QED
  BY <1>4, <1>6 DEF ReadInto

\* A record begins with its name.
LEMMA EnterRecord ==
  ASSUME NEW query \in Queries, NEW i \in DOMAIN Records(query.name),
         cpu'.pc = "name", cpu'.questions = 0,
         cpu'.answers = Len(Records(query.name)) - i + 1
  PROVE  InBody(query, Base(query.name, i))'
<1> DEFINE r == Records(query.name)[i]   b == Base(query.name, i)
<1>1. query.name \in DOMAIN Zone
  BY DEF Queries
<1>2. b \in Nat
  BY <1>1, RecordInBody
<1>3. PICK marks \in SUBSET DOMAIN r.name : IsWalk(r.name, marks)
  BY <1>1, RecordOf DEF IsName
<1>4. (b - b) + 1 \in marks
  <2>1. (b - b) + 1 = 1
    BY <1>2
  <2>2. QED
    BY <1>3, <2>1 DEF IsWalk
<1>5. InRecord(r, b - b)'
  BY <1>3, <1>4 DEF InRecord, InName, At
<1>6. InBody(query, b)'
  BY <1>5, BackInRecord
<1>7. QED
  BY <1>6

LEMMA SkipQuestionStep ==
  ASSUME DnsInv, SkipQuestion
  PROVE  DnsInv' /\ (~torn /\ torn' => moving)
<1>1. /\ cpu \in Locals /\ cpu.pc = "question" /\ cpu.answers > 0 /\ cpu.answers \in Nat
      /\ cpu.questions \in Nat /\ cpu.questions > 0 /\ cpu.pc \in Walking
      /\ SkipCells(2) /\ UNCHANGED <<object, result, asked>>
      /\ cpu' = [cpu EXCEPT !.pc = "name", !.questions = cpu.questions - 1, !.len = UNSET]
  BY Locally DEF DnsInv, CountsRight, SkipQuestion, At, Walking, Parse
<1>2. /\ cpu' \in Locals /\ cpu'.pc = "name"
      /\ cpu'.questions = cpu.questions - 1 /\ cpu'.answers = cpu.answers
  <2>1. cpu.questions - 1 \in Nat
    BY <1>1
  <2>2. UNSET \in UNSET .. BYTE - 1
    BY DEF UNSET, BYTE
  <2>3. QED
    BY <1>1, <2>1, <2>2 DEF Locals, Labels
<1>3. CountsRight' /\ AddressChecked'
  BY <1>1, <1>2 DEF CountsRight, AddressChecked, At
<1>4. ASSUME ~torn
      PROVE  /\ 2 <= Len(rest)
             /\ rest' = SubSeq(rest, 2 + 1, Len(rest)) /\ UNCHANGED port => InAnswer'
  <2>1. PICK query \in Queries : \E n \in Nat : Stands(query, n) /\ InBody(query, n)
    BY <1>1, <1>4, PlaceOf
  <2>2. PICK n \in Nat : Stands(query, n) /\ InBody(query, n)
    BY <2>1
  <2>3. /\ cpu.questions = 1 /\ cpu.answers = Len(Records(query.name)) /\ n = Len(query.name)
    BY <1>1, <2>2 DEF InBody, InQuestion, InRecord, InName, At, Records
  <2>4. query.name \in DOMAIN Zone
    BY DEF Queries
  <2>5. 1 \in DOMAIN Records(query.name)
    <3>1. DOMAIN Records(query.name) = 1 .. Len(Records(query.name)) /\ Len(Records(query.name)) \in Nat
      BY <2>4, ZoneOf
    <3>2. Len(Records(query.name)) > 0
      BY <1>1, <2>3
    <3>3. QED
      BY <3>1, <3>2
  <2> DEFINE b == Base(query.name, 1)   w == Len(RecordCells(Records(query.name)[1]))
             d == Len(BodyOf(query.name))   z == Len(rest)
  <2>6. b = Len(query.name) + 2 /\ b + w <= d
    BY <2>4, <2>5, RecordInBody
  <2>7. w \in Nat
    BY <2>4, <2>5, RecordOf, RecordParts, LenProperties
  <2>8. d \in Nat /\ z = d - n
    BY <2>2, RestIs
  <2> HIDE DEF b, w, d, z
  <2>9. b = n + 2
    BY <2>3, <2>6
  <2>10. 2 <= z
    BY <2>6, <2>7, <2>8, <2>9
  <2>11. ASSUME rest' = SubSeq(rest, 2 + 1, Len(rest)), UNCHANGED port
         PROVE  InAnswer'
    <3>1. Stands(query, n + 2)'
      BY <1>1, <2>2, <2>10, <2>11, Moved DEF z
    <3>2. cpu'.answers = Len(Records(query.name)) - 1 + 1 /\ cpu'.questions = 0
      BY <1>1, <1>2, <2>3
    <3>3. InBody(query, b)'
      BY <1>2, <2>5, <3>2, EnterRecord DEF b
    <3>4. b \in Nat
      BY <2>9
    <3>5. Stands(query, b)'
      BY <2>9, <3>1
    <3>6. QED
      BY <3>3, <3>4, <3>5, Answers
  <2>12. QED
    BY <2>10, <2>11 DEF z
<1>5. QED
  BY <1>1, <1>2, <1>3, <1>4, SkipStep DEF Walking

LEMMA SkipTtlStep ==
  ASSUME DnsInv, At("ttl"), SkipCells(1), Goto("rdlength"), Parse
  PROVE  DnsInv' /\ (~torn /\ torn' => moving)
<1>1. /\ cpu \in Locals /\ cpu.pc = "ttl" /\ cpu.answers > 0
      /\ cpu.pc \in InRecordLabels /\ cpu.pc \in Walking
      /\ UNCHANGED <<object, result, asked>>
      /\ cpu' = [cpu EXCEPT !.pc = "rdlength"]
  BY Locally DEF DnsInv, CountsRight, At, Walking, Parse, Goto, InRecordLabels
<1>2. /\ cpu' \in Locals /\ cpu'.pc = "rdlength"
      /\ cpu'.questions = cpu.questions /\ cpu'.answers = cpu.answers
      /\ cpu'.type = cpu.type /\ cpu'.class = cpu.class
  BY <1>1 DEF Locals, Labels
<1>3. CountsRight' /\ AddressChecked'
  BY <1>1, <1>2 DEF CountsRight, AddressChecked, At
<1>4. ASSUME ~torn
      PROVE  /\ 1 <= Len(rest)
             /\ rest' = SubSeq(rest, 1 + 1, Len(rest)) /\ UNCHANGED port => InAnswer'
  <2>1. PICK query \in Queries : \E i \in DOMAIN Records(query.name) : \E p \in Nat :
             /\ Past(query, i, p) /\ cpu.questions = 0
             /\ cpu.answers = Len(Records(query.name)) - i + 1
             /\ InRecord(Records(query.name)[i], p)
    BY <1>1, <1>4, PlaceInRecord
  <2>2. PICK i \in DOMAIN Records(query.name), p \in Nat :
             /\ Past(query, i, p) /\ cpu.questions = 0
             /\ cpu.answers = Len(Records(query.name)) - i + 1
             /\ InRecord(Records(query.name)[i], p)
    BY <2>1
  <2> DEFINE r == Records(query.name)[i]
  <2>5. query.name \in DOMAIN Zone
    BY DEF Queries
  <2> DEFINE l == Len(r.name)   d == Len(r.data)   w == Len(RecordCells(r))
  <2>6. l \in Nat /\ d \in Nat /\ w = l + 4 + d
    BY <2>5, FieldsFit
  <2>7. InRecord(r, p)
    BY <2>2
  <2> HIDE DEF r
  <2>8. p = l + 2 /\ cpu.type = r.type /\ cpu.class = r.class
    BY <1>1, <2>7 DEF InRecord, InName, At
  <2> HIDE DEF l, d, w
  <2>9. p \in Nat /\ p + 1 <= w /\ p + 1 = l + 3
    BY <2>6, <2>8
  <2>11. 1 <= Len(rest)
    BY <2>2, <2>9, RecordAhead DEF w, r
  <2>12. ASSUME rest' = SubSeq(rest, 1 + 1, Len(rest)), UNCHANGED port
         PROVE  InAnswer'
    <3>1. InRecord(r, p + 1)'
      BY <1>2, <2>8, <2>9 DEF InRecord, At, l
    <3>2. QED
      BY <1>1, <1>2, <2>2, <2>9, <2>12, <3>1, MovedInRecord DEF w, r
  <2>13. QED
    BY <2>11, <2>12
<1>5. QED
  BY <1>1, <1>2, <1>3, <1>4, SkipStep DEF Walking

LEMMA ReadRecordStep ==
  ASSUME DnsInv, ReadRecord
  PROVE  DnsInv' /\ (~torn /\ torn' => moving)
<1>1. Parse
  BY DEF ReadRecord
<1>2. \A value \in {0, 1} : value \in 0 .. WORD - 1
  BY SmallWords
<1>3. CASE At("type") /\ ReadInto("type", WORD, {0, TYPE_A}, "class")
  BY <1>1, <1>2, <1>3, FieldStep DEF TYPE_A
<1>4. CASE At("class") /\ ReadInto("class", WORD, {0, CLASS_IN}, "ttl")
  BY <1>1, <1>2, <1>4, FieldStep DEF CLASS_IN
<1>5. CASE At("ttl") /\ SkipCells(1) /\ Goto("rdlength")
  BY <1>1, <1>5, SkipTtlStep
<1>6. CASE At("rdlength") /\ ReadInto("rdlength", WORD, {0, ADDRESS_SIZE}, "answer")
  BY <1>1, <1>2, <1>6, FieldStep DEF ADDRESS_SIZE
<1>7. QED
  BY <1>3, <1>4, <1>5, <1>6 DEF ReadRecord

LEMMA CheckAnswerStep ==
  ASSUME DnsInv, CheckAnswer
  PROVE  DnsInv' /\ torn' = torn
<1>1. /\ TypeOK /\ cpu \in Locals /\ cpu.pc = "answer" /\ cpu.answers > 0
      /\ cpu.pc \in InRecordLabels /\ cpu.pc \notin {"idle", "lookup"}
      /\ UNCHANGED <<object, asked>>
  BY Locally DEF DnsInv, CountsRight, CheckAnswer, At, Walking, InRecordLabels
<1>2. CASE FlushAndReturn(-9)
  <2>1. DnsInv'
    BY <1>1, <1>2, FlushedStep
  <2>2. QED
    BY <1>1, <1>2, <2>1, FlushOf
<1>3. ASSUME NEW label \in {"address", "data"}, Goto(label), UNCHANGED <<socket, result, torn>>,
             label = "address" =>
                 cpu.type = TYPE_A /\ cpu.class = CLASS_IN /\ cpu.rdlength = ADDRESS_SIZE
      PROVE  DnsInv' /\ torn' = torn
  <2>1. /\ cpu' \in Locals /\ cpu'.pc = label
        /\ cpu'.questions = cpu.questions /\ cpu'.answers = cpu.answers
        /\ cpu'.type = cpu.type /\ cpu'.class = cpu.class /\ cpu'.rdlength = cpu.rdlength
    BY <1>1, <1>3 DEF Locals, Labels, Goto
  <2>2. CountsRight' /\ AddressChecked'
    BY <1>1, <1>3, <2>1 DEF CountsRight, AddressChecked, At
  <2>3. ASSUME ~torn
        PROVE  InAnswer'
    <3>1. PICK query \in Queries : \E i \in DOMAIN Records(query.name) : \E p \in Nat :
               /\ Past(query, i, p) /\ cpu.questions = 0
               /\ cpu.answers = Len(Records(query.name)) - i + 1
               /\ InRecord(Records(query.name)[i], p)
      BY <1>1, <2>3, PlaceInRecord
    <3>2. PICK i \in DOMAIN Records(query.name), p \in Nat :
               /\ Past(query, i, p) /\ cpu.questions = 0
               /\ cpu.answers = Len(Records(query.name)) - i + 1
               /\ InRecord(Records(query.name)[i], p)
      BY <3>1
    <3> DEFINE b == Base(query.name, i)   n == b + p
    <3>3. b \in Nat /\ Stands(query, n)
      <4>1. query.name \in DOMAIN Zone
        BY DEF Queries
      <4>2. QED
        BY <3>2, <4>1, RecordInBody DEF Past
    <3> HIDE DEF b
    <3>4. n \in Nat /\ n - b = p
      BY <3>3
    <3> HIDE DEF n
    <3>5. InRecord(Records(query.name)[i], p)'
      BY <1>1, <1>3, <2>1, <3>2 DEF InRecord, InName, At
    <3>6. InBody(query, n)'
      BY <2>1, <3>2, <3>4, <3>5, BackInRecord DEF b
    <3>7. Stands(query, n)'
      BY <1>1, <1>3, <3>3 DEF Stands, socket, object
    <3>8. QED
      BY <3>4, <3>6, <3>7, Answers
  <2>4. InAnswer'
    <3>1. CASE torn
      BY <1>3, <3>1 DEF InAnswer
    <3>2. QED
      BY <2>3, <3>1
  <2>5. Quiet
    BY <1>1, <1>3 DEF Quiet, TypeOK, socket
  <2>6. cpu'.pc \in Walking
    BY <1>3, <2>1 DEF Walking
  <2>7. DnsInv'
    BY <1>1, <1>3, <2>1, <2>2, <2>4, <2>5, <2>6, WalkedStep
  <2>8. QED
    BY <1>3, <2>7
<1>4. QED
  BY <1>2, <1>3 DEF CheckAnswer

\* A record of type A holds an address of the name.
LEMMA AddressIsThere ==
  ASSUME NEW query \in Queries, NEW i \in DOMAIN Records(query.name),
         Records(query.name)[i].type = TYPE_A
  PROVE  Records(query.name)[i].data[1] \in AddressesOf(query.name)
  BY DEF AddressesOf, Records

LEMMA ReadAddressStep ==
  ASSUME DnsInv, ReadAddress
  PROVE  DnsInv' /\ (~torn /\ torn' => moving)
<1>1. /\ TypeOK /\ cpu \in Locals /\ cpu.pc = "address"
      /\ cpu.type = TYPE_A /\ cpu.rdlength = 1
      /\ cpu.pc \in InRecordLabels /\ cpu.pc \notin {"idle", "lookup"}
      /\ UNCHANGED <<object, asked>>
      /\ ret' = SUCCESS /\ cpu' = [Idle EXCEPT !.pc = "stop"]
  BY Locally DEF DnsInv, AddressChecked, ADDRESS_SIZE, ReadAddress, Leave, At, InRecordLabels
<1>2. ret' \in INVALID_SERVER .. WORD - 1
  BY <1>1 DEF SUCCESS, INVALID_SERVER, WORD
<1>3. ASSUME ~torn
      PROVE  /\ 1 <= Len(rest)
             /\ aResult' = rest[1] /\ UNCHANGED port => AddressIsRight'
  <2>1. PICK query \in Queries : \E i \in DOMAIN Records(query.name) : \E p \in Nat :
             /\ Past(query, i, p) /\ cpu.questions = 0
             /\ cpu.answers = Len(Records(query.name)) - i + 1
             /\ InRecord(Records(query.name)[i], p)
    BY <1>1, <1>3, PlaceInRecord
  <2>2. PICK i \in DOMAIN Records(query.name), p \in Nat :
             /\ Past(query, i, p) /\ cpu.questions = 0
             /\ cpu.answers = Len(Records(query.name)) - i + 1
             /\ InRecord(Records(query.name)[i], p)
    BY <2>1
  <2> DEFINE r == Records(query.name)[i]
  <2>5. query.name \in DOMAIN Zone
    BY DEF Queries
  <2> DEFINE l == Len(r.name)   d == Len(r.data)   w == Len(RecordCells(r))
  <2>6. r \in Record /\ l \in Nat /\ d \in Nat /\ w = l + 4 + d
    BY <2>5, FieldsFit
  <2>7. InRecord(r, p)
    BY <2>2
  <2> HIDE DEF r
  <2>8. p = l + 4 /\ r.type = TYPE_A /\ d = 1
    BY <1>1, <2>7 DEF InRecord, InName, At
  <2>9. \A k \in 1 .. d : RecordCells(r)[l + 4 + k] = r.data[k]
    BY <2>6, RecordParts
  <2> HIDE DEF l, d, w
  <2>10. p \in Nat /\ p + 1 <= w /\ 1 \in 1 .. d /\ l + 4 + 1 = p + 1
    BY <2>6, <2>8
  <2>11. RecordCells(r)[p + 1] = r.data[1]
    BY <2>9, <2>10
  <2>13. 1 <= Len(rest) /\ rest[1] = RecordCells(r)[p + 1]
    BY <2>2, <2>10, RecordAhead DEF w, r
  <2>14. ASSUME aResult' = rest[1], UNCHANGED port
         PROVE  AddressIsRight'
    <3>1. r.data[1] \in AddressesOf(query.name)
      BY <2>8, AddressIsThere DEF r
    <3>2. aResult' \in AddressesOf(query.name)
      BY <2>11, <2>13, <2>14, <3>1
    <3>3. query \in asked' /\ query.id = iRequestId' /\ query.port = port'
      BY <1>1, <2>2, <2>14 DEF Past, Stands, object
    <3>4. QED
      BY <3>2, <3>3 DEF AddressIsRight
  <2>15. QED
    BY <2>13, <2>14
<1>4. CASE Read(1) /\ aResult' = got'[1]
  <2>1. /\ rest' \in Seq(Nat) /\ got' \in Seq(Nat) /\ got'[1] = rest[1]
        /\ moving' = FALSE /\ UNCHANGED <<queue, remote, port, torn>>
    BY <1>1, <1>4, ReadOne
  <2>2. Quiet
    BY <1>1, <2>1 DEF Quiet, TypeOK
  <2>3. AddressIsRight'
    <3>1. CASE torn
      BY <2>1, <3>1 DEF AddressIsRight
    <3>2. CASE ~torn
      BY <1>3, <1>4, <2>1, <3>2
    <3>3. QED
      BY <3>1, <3>2
  <2>4. DnsInv'
    BY <1>1, <1>2, <2>2, <2>3, FailedStep
  <2>5. QED
    BY <2>1, <2>4
<1>5. CASE ReadFails
  <2>1. /\ rest' \in Seq(Nat) /\ got' \in Seq(Nat)
        /\ moving' = FALSE /\ torn' = TRUE /\ UNCHANGED <<queue, remote, rest, got, port>>
        /\ moving \/ Len(rest) = 0
    BY <1>1, <1>5, FailsOf
  <2>2. Quiet
    BY <1>1, <2>1 DEF Quiet
  <2>3. AddressIsRight'
    BY <2>1 DEF AddressIsRight
  <2>4. DnsInv'
    BY <1>1, <1>2, <2>2, <2>3, FailedStep
  <2>5. ~torn => moving
    <3>1. ~torn => 1 <= Len(rest)
      BY <1>3
    <3>2. QED
      BY <2>1, <3>1
  <2>6. QED
    BY <2>4, <2>5
<1>6. QED
  BY <1>4, <1>5 DEF ReadAddress

LEMMA SkipDataStep ==
  ASSUME DnsInv, SkipData
  PROVE  DnsInv' /\ (~torn /\ torn' => moving)
<1>0. PICK len \in Nat : cpu.rdlength = len
  BY Locally
<1>1. /\ cpu \in Locals /\ cpu.pc = "data" /\ cpu.answers > 0 /\ cpu.answers \in Nat
      /\ cpu.pc \in InRecordLabels /\ cpu.pc \in Walking
      /\ SkipCells(len) /\ UNCHANGED <<object, result, asked>>
      /\ cpu' = [cpu EXCEPT !.pc = IF cpu.answers = 1 THEN "end" ELSE "name",
                            !.answers = cpu.answers - 1, !.len = UNSET]
  BY <1>0, Locally DEF DnsInv, CountsRight, SkipData, At, Walking, Parse, InRecordLabels
<1>2. /\ cpu' \in Locals /\ cpu'.pc = IF cpu.answers = 1 THEN "end" ELSE "name"
      /\ cpu'.questions = cpu.questions /\ cpu'.answers = cpu.answers - 1
  <2>1. cpu.answers - 1 \in Nat
    BY <1>1
  <2>2. UNSET \in UNSET .. BYTE - 1
    BY DEF UNSET, BYTE
  <2>3. QED
    BY <1>1, <2>1, <2>2 DEF Locals, Labels
<1>3. CountsRight' /\ AddressChecked'
  <2>1. CASE cpu.answers = 1
    BY <1>2, <2>1 DEF CountsRight, AddressChecked, At, Walking
  <2>2. CASE cpu.answers # 1
    <3>1. cpu'.answers > 0 /\ cpu'.pc = "name"
      BY <1>1, <1>2, <2>2
    <3>2. QED
      BY <3>1 DEF CountsRight, AddressChecked, At
  <2>3. QED
    BY <2>1, <2>2
<1>4. ASSUME ~torn
      PROVE  /\ len <= Len(rest)
             /\ rest' = SubSeq(rest, len + 1, Len(rest)) /\ UNCHANGED port => InAnswer'
  <2>1. PICK query \in Queries : \E i \in DOMAIN Records(query.name) : \E p \in Nat :
             /\ Past(query, i, p) /\ cpu.questions = 0
             /\ cpu.answers = Len(Records(query.name)) - i + 1
             /\ InRecord(Records(query.name)[i], p)
    BY <1>1, <1>4, PlaceInRecord
  <2>2. PICK i \in DOMAIN Records(query.name), p \in Nat :
             /\ Past(query, i, p) /\ cpu.questions = 0
             /\ cpu.answers = Len(Records(query.name)) - i + 1
             /\ InRecord(Records(query.name)[i], p)
    BY <2>1
  <2> DEFINE r == Records(query.name)[i]
  <2>5. query.name \in DOMAIN Zone
    BY DEF Queries
  <2> DEFINE l == Len(r.name)   d == Len(r.data)   w == Len(RecordCells(r))
             c == Len(Records(query.name))
  <2>6. r \in Record /\ l \in Nat /\ d \in Nat /\ w = l + 4 + d
    BY <2>5, FieldsFit
  <2>7. InRecord(r, p)
    BY <2>2
  <2> HIDE DEF r
  <2>8. p = l + 4 /\ d = len
    BY <1>0, <1>1, <2>7 DEF InRecord, InName, At
  <2>9. c \in Nat /\ DOMAIN Records(query.name) = 1 .. c
    BY <2>5, ZoneOf
  <2>10. i < c => Base(query.name, i + 1) = Base(query.name, i) + w
    BY <2>5, RecordInBody DEF r
  <2> HIDE DEF l, d, w, c
  <2>11. p \in Nat /\ p + len <= w /\ p + len = w
    BY <2>6, <2>8
  <2>13. len <= Len(rest)
    <3>1. \A k \in Nat : p + k <= Len(RecordCells(r)) => k <= Len(rest)
      BY <2>2, RecordAhead DEF r
    <3>2. QED
      BY <2>11, <3>1 DEF w
  <2>14. ASSUME rest' = SubSeq(rest, len + 1, Len(rest)), UNCHANGED port
         PROVE  InAnswer'
    <3>1. CASE cpu.answers = 1
      BY <1>2, <3>1 DEF InAnswer, Walking
    <3>2. CASE cpu.answers # 1
      <4>1. i \in 1 .. c /\ cpu.answers = c - i + 1
        BY <2>2, <2>9 DEF c
      <4>2. i < c /\ i + 1 \in 1 .. c /\ cpu.answers - 1 = c - (i + 1) + 1
        BY <1>1, <2>9, <3>2, <4>1
      <4> DEFINE b == Base(query.name, i)   n == b + p
      <4>3. b \in Nat /\ Stands(query, n)
        BY <2>2, <2>5, RecordInBody DEF Past
      <4>4. n \in Nat /\ n + len \in Nat /\ b + w = n + len
        <5> HIDE DEF b
        <5>1. QED
          BY <2>11, <4>3
      <4>5. Stands(query, n + len)' /\ Base(query.name, i + 1) = n + len
        <5>1. Base(query.name, i + 1) = n + len
          BY <2>10, <4>2, <4>4
        <5> HIDE DEF n
        <5>2. QED
          BY <1>1, <2>13, <2>14, <4>3, <4>4, <5>1, Moved
      <4> HIDE DEF b, n
      <4> DEFINE j == i + 1
      <4>6. j \in DOMAIN Records(query.name) /\ cpu'.answers = Len(Records(query.name)) - j + 1
        BY <1>2, <2>9, <4>2 DEF c
      <4> HIDE DEF j
      <4>7. cpu'.pc = "name" /\ cpu'.questions = 0
        BY <1>2, <2>2, <3>2
      <4>8. InBody(query, Base(query.name, j))'
        BY <4>6, <4>7, EnterRecord
      <4>9. Stands(query, Base(query.name, j))' /\ Base(query.name, j) \in Nat
        BY <4>4, <4>5 DEF j
      <4>10. QED
        BY <4>8, <4>9, Answers
    <3>3. QED
      BY <3>1, <3>2
  <2>15. QED
    BY <2>13, <2>14
<1>5. cpu'.pc \in Walking \union {"end"}
  BY <1>2 DEF Walking
<1>6. QED
  BY <1>1, <1>2, <1>3, <1>4, <1>5, SkipStep

LEMMA NoAnswerStep ==
  ASSUME DnsInv, NoAnswer
  PROVE  DnsInv' /\ torn' = torn
<1>1. TypeOK /\ FlushAndReturn(-10) /\ cpu.pc \notin {"idle", "lookup"} /\ UNCHANGED <<object, asked>>
  BY Locally DEF NoAnswer, At
<1>2. DnsInv'
  BY <1>1, FlushedStep
<1>3. QED
  BY <1>1, <1>2, FlushOf

----------------------------------------------------------------------------
(* The header *)

LEMMA CheckHeaderStep ==
  ASSUME DnsInv, CheckHeader
  PROVE  DnsInv' /\ torn' = torn
<1>1. /\ TypeOK /\ cpu \in Locals /\ cpu.pc = "check" /\ cpu.pc \notin {"idle", "lookup"}
      /\ UNCHANGED <<object, asked>>
  BY Locally DEF CheckHeader, At
<1>2. ASSUME NEW code \in {INVALID_RESPONSE, -5, -6, -9, -10}, FlushAndReturn(code)
      PROVE  DnsInv' /\ torn' = torn
  <2>1. DnsInv'
    BY <1>1, <1>2, FlushedStep
  <2>2. QED
    BY <1>1, <1>2, <2>1, FlushOf
<1>3. ASSUME cpu.id = iRequestId, cpu.answers > 0, Goto("name"), UNCHANGED <<socket, result, torn>>
      PROVE  DnsInv' /\ torn' = torn
  <2>1. /\ cpu' \in Locals /\ cpu'.pc = "name"
        /\ cpu'.questions = cpu.questions /\ cpu'.answers = cpu.answers
    BY <1>1, <1>3 DEF Locals, Labels, Goto
  <2>2. CountsRight' /\ AddressChecked'
    BY <1>3, <2>1 DEF CountsRight, AddressChecked, At
  <2>3. ASSUME ~torn
        PROVE  InAnswer'
    <3>1. PICK query \in asked :
              /\ query.port = port /\ cpu.id = query.id
              /\ cpu.questions = 1 /\ cpu.answers = Len(Records(query.name))
              /\ rest = BodyOf(query.name)
      BY <1>1, <1>3, <2>3 DEF DnsInv, HeaderRight, At, Records, BodyOf
    <3>2. query \in Queries /\ query.name \in DOMAIN Zone
      BY <1>1, <3>1 DEF TypeOK, Queries
    <3> DEFINE b == BodyOf(query.name)
    <3>3. b \in Seq(Nat) /\ Len(b) \in Nat /\ Behind(query, 0) = SubSeq(b, 0 + 1, Len(b))
      <4>1. query.name \in Seq(Nat) /\ Zone[query.name].cells \in Seq(Nat)
        BY <3>2, ZoneOf
      <4>2. b \in Seq(Nat)
        BY <4>1, BodyParts DEF BodyOf
      <4>3. Behind(query, 0) = SubSeq(b, 0 + 1, Len(b))
        BY DEF Behind, BodyOf
      <4>4. QED
        BY <4>2, <4>3, LenProperties
    <3> HIDE DEF b
    <3>4. Behind(query, 0) = b /\ 0 \in 0 .. Len(b)
      BY <3>3, SubSeqFull
    <3>5. Stands(query, 0)'
      BY <1>1, <1>3, <3>1, <3>4 DEF Stands, socket, object, b
    <3>6. PICK marks \in SUBSET DOMAIN query.name :
              IsWalk(query.name, marks) /\ \A m \in marks : query.name[m] < LABEL_COMPRESSION
      BY <3>2, ZoneOf DEF IsPlainName
    <3>7. InName(query.name, marks, 0)'
      <4>1. 0 + 1 \in marks
        BY <3>6 DEF IsWalk
      <4>2. QED
        BY <2>1, <3>6, <4>1 DEF InName, At
    <3>8. InBody(query, 0)'
      BY <2>1, <3>1, <3>6, <3>7 DEF InBody, InQuestion, Records
    <3>9. QED
      BY <3>2, <3>5, <3>8, Answers
  <2>4. InAnswer'
    <3>1. CASE torn
      BY <1>3, <3>1 DEF InAnswer
    <3>2. QED
      BY <2>3, <3>1
  <2>5. Quiet
    BY <1>1, <1>3 DEF Quiet, TypeOK, socket
  <2>6. DnsInv'
    BY <1>1, <1>3, <2>1, <2>2, <2>4, <2>5, WalkedStep DEF Walking
  <2>7. QED
    BY <1>3, <2>6
<1>4. QED
  BY <1>2, <1>3 DEF CheckHeader

LEMMA ReadHeaderStep ==
  ASSUME DnsInv, ReadHeader
  PROVE  DnsInv' /\ (~torn /\ torn' => moving)
<1>1. /\ TypeOK /\ cpu \in Locals /\ cpu.pc = "header" /\ torn \in BOOLEAN
      /\ UNCHANGED <<object, result, asked>>
  BY Locally DEF ReadHeader, At
<1>2. PICK query \in asked : query.port = port /\ rest \in Replies(query)
  BY <1>1 DEF DnsInv, ServerRight, At
<1>3. query \in Queries
  BY <1>1, <1>2 DEF TypeOK
<1>4. /\ Len(rest) \in Nat /\ Len(rest) >= 4
      /\ rest[1] = query.id /\ rest[3] = 1 /\ rest[4] \in Nat
      /\ rest[4] > 0 => /\ rest[4] = Len(Records(query.name))
                        /\ SubSeq(rest, 5, Len(rest)) = BodyOf(query.name)
  BY <1>2, <1>3, RepliesAre
<1>5. ASSUME NEW id \in Nat, NEW flags \in Nat, NEW questions \in Nat, NEW answers \in Nat,
             cpu' = [cpu EXCEPT !.pc = "check", !.id = id, !.flags = flags,
                                !.questions = questions, !.answers = answers]
      PROVE  /\ cpu' \in Locals /\ cpu'.pc = "check" /\ cpu'.id = id
             /\ cpu'.questions = questions /\ cpu'.answers = answers
             /\ ServerRight' /\ CountsRight' /\ InAnswer' /\ AddressChecked' /\ AddressIsRight'
  <2>1. /\ cpu' \in Locals /\ cpu'.pc = "check" /\ cpu'.id = id
        /\ cpu'.questions = questions /\ cpu'.answers = answers
    BY <1>1, <1>5 DEF Locals, Labels
  <2>2. QED
    BY <2>1 DEF ServerRight, CountsRight, InAnswer, AddressChecked, AddressIsRight, At, Walking
<1>6. ret' \in INVALID_SERVER .. WORD - 1
  BY <1>1 DEF TypeOK, result
<1>7. CASE /\ Read(DNS_HEADER_SIZE)
           /\ cpu' = [cpu EXCEPT !.pc = "check", !.id = got'[1], !.flags = got'[2],
                                 !.questions = got'[3], !.answers = got'[4]]
  <2>1. Read(4)
    BY <1>7 DEF DNS_HEADER_SIZE
  <2>2. /\ rest' = SubSeq(rest, 4 + 1, Len(rest))
        /\ rest' \in Seq(Nat) /\ got' \in Seq(Nat)
        /\ \A i \in 1 .. 4 : got'[i] = rest[i] /\ got'[i] \in Nat
        /\ moving' = FALSE /\ UNCHANGED <<queue, remote, port, torn>>
    BY <1>1, <2>1, ReadOf
  <2>3. /\ got'[1] \in Nat /\ got'[2] \in Nat /\ got'[3] \in Nat /\ got'[4] \in Nat
        /\ got'[1] = rest[1] /\ got'[3] = rest[3] /\ got'[4] = rest[4]
    BY <2>2
  <2>4. /\ cpu' \in Locals /\ cpu'.pc = "check" /\ cpu'.id = rest[1]
        /\ cpu'.questions = rest[3] /\ cpu'.answers = rest[4]
        /\ ServerRight' /\ CountsRight' /\ InAnswer' /\ AddressChecked' /\ AddressIsRight'
    <3>1. PICK id \in Nat, flags \in Nat, questions \in Nat, answers \in Nat :
              id = got'[1] /\ flags = got'[2] /\ questions = got'[3] /\ answers = got'[4]
      BY <2>3
    <3>2. cpu' = [cpu EXCEPT !.pc = "check", !.id = id, !.flags = flags,
                             !.questions = questions, !.answers = answers]
      BY <1>7, <3>1
    <3>3. id = rest[1] /\ questions = rest[3] /\ answers = rest[4]
      BY <2>3, <3>1
    <3>4. QED
      BY <1>5, <3>2, <3>3
  <2>5. HeaderRight'
    <3>1. ASSUME rest[4] > 0
          PROVE  /\ cpu'.answers = Len(Records(query.name)) /\ cpu'.questions = 1
                 /\ rest' = BodyOf(query.name)
      BY <1>4, <2>2, <2>4, <3>1
    <3>2. query \in asked' /\ query.port = port' /\ cpu'.id = query.id
      BY <1>1, <1>2, <1>4, <2>2, <2>4
    <3>3. cpu'.answers = rest[4]
      BY <2>4
    <3>4. QED
      BY <3>1, <3>2, <3>3 DEF HeaderRight, Records, BodyOf
  <2>6. Quiet
    BY <1>1, <2>2 DEF Quiet
  <2>7. DnsInv'
    BY <1>1, <1>6, <2>4, <2>5, <2>6, QuietStep
  <2>8. QED
    BY <2>2, <2>7
<1>8. ASSUME ReadFails, NEW id \in Ids, NEW flags \in {QUERY, RESPONSE}, NEW n \in 0 .. 1,
             cpu' = [cpu EXCEPT !.pc = "check", !.id = id, !.flags = flags,
                                !.questions = n, !.answers = n]
      PROVE  DnsInv' /\ (~torn => moving)
  <2>1. /\ rest' \in Seq(Nat) /\ got' \in Seq(Nat)
        /\ moving' = FALSE /\ torn' = TRUE /\ UNCHANGED <<queue, remote, rest, got, port>>
        /\ moving \/ Len(rest) = 0
    BY <1>1, <1>8, FailsOf
  <2>2. id \in Nat /\ flags \in Nat /\ n \in Nat
    BY <1>8, Sizes DEF QUERY, RESPONSE
  <2>3. /\ cpu' \in Locals /\ cpu'.pc = "check"
        /\ ServerRight' /\ CountsRight' /\ InAnswer' /\ AddressChecked' /\ AddressIsRight'
    BY <1>5, <1>8, <2>2
  <2>4. HeaderRight'
    BY <2>1 DEF HeaderRight
  <2>5. Quiet
    BY <1>1, <2>1 DEF Quiet
  <2>6. DnsInv'
    BY <1>1, <1>6, <2>3, <2>4, <2>5, QuietStep
  <2>7. moving
    BY <1>4, <2>1
  <2>8. QED
    BY <2>6, <2>7
<1>9. CASE /\ ReadFails
           /\ \E id \in Ids, flags \in {QUERY, RESPONSE}, n \in 0 .. 1 :
                  cpu' = [cpu EXCEPT !.pc = "check", !.id = id, !.flags = flags,
                                     !.questions = n, !.answers = n]
  BY <1>8, <1>9
<1>10. QED
  BY <1>7, <1>9 DEF ReadHeader

----------------------------------------------------------------------------
(* The datagram that is taken *)

LEMMA WaitTimeoutStep ==
  ASSUME DnsInv, WaitTimeout
  PROVE  DnsInv' /\ torn' = torn
<1>1. /\ TypeOK /\ cpu.pc \notin {"idle", "lookup"}
      /\ UNCHANGED <<socket, object, asked, torn>>
      /\ ret' = TIMED_OUT % WORD /\ cpu' = [Idle EXCEPT !.pc = "stop"]
  BY Locally DEF WaitTimeout, Return, Leave, At
<1>2. Quiet
  BY <1>1 DEF Quiet, TypeOK, socket
<1>3. DnsInv'
  BY <1>1, <1>2, Errors, FailedStep
<1>4. QED
  BY <1>1, <1>3

LEMMA CheckSourceStep ==
  ASSUME DnsInv, CheckSource
  PROVE  DnsInv' /\ torn' = torn
<1>1. /\ TypeOK /\ cpu \in Locals /\ cpu.pc = "source" /\ cpu.pc \notin {"idle", "lookup"}
      /\ UNCHANGED <<socket, object, asked, torn>>
  BY Locally DEF CheckSource, At
<1>2. Quiet
  BY <1>1 DEF Quiet, TypeOK, socket
<1>3. ASSUME NEW code \in {INVALID_SERVER, TRUNCATED}, Return(code)
      PROVE  DnsInv'
  <2>1. ret' = code % WORD /\ cpu' = [Idle EXCEPT !.pc = "stop"]
    BY <1>3 DEF Return, Leave
  <2>2. QED
    BY <1>1, <1>2, <2>1, Errors, FailedStep
<1>4. CASE remote = iDNSServer /\ Goto("header") /\ UNCHANGED result
  <2>1. cpu' \in Locals /\ cpu'.pc = "header"
    BY <1>1, <1>4 DEF Locals, Labels, Goto
  <2>2. /\ HeaderRight' /\ CountsRight' /\ InAnswer' /\ AddressChecked' /\ AddressIsRight'
    BY <2>1 DEF HeaderRight, CountsRight, InAnswer, AddressChecked, AddressIsRight, At, Walking
  <2>3. iDNSServer = Server /\ remote = Server
    BY <1>1, <1>4 DEF DnsInv, ServerRight, At
  <2>4. \E query \in asked : query.port = port /\ rest \in Replies(query)
    BY <1>1, <2>3 DEF DnsInv, ServerRight, At
  <2>5. UNCHANGED <<rest, port, remote, asked>>
    BY <1>1 DEF socket
  <2>6. ServerRight'
    BY <2>1, <2>3, <2>4, <2>5 DEF ServerRight, At
  <2>7. ret' \in INVALID_SERVER .. WORD - 1
    BY <1>1, <1>4 DEF TypeOK, result
  <2>8. QED
    BY <1>1, <1>2, <2>1, <2>2, <2>6, <2>7, QuietStep
<1>5. DnsInv'
  BY <1>3, <1>4 DEF CheckSource
<1>6. QED
  BY <1>1, <1>5

Arrived == [from : {Server, Stranger}, data : Seq(Nat)]

LEMMA WaitTakeStep ==
  ASSUME DnsInv, WaitTake
  PROVE  DnsInv' /\ torn' = torn
<1>1. /\ TypeOK /\ cpu \in Locals /\ cpu.pc = "wait"
      /\ queue \in Seq(Arrived) /\ queue # <<>>
      /\ remote' = Head(queue).from /\ rest' = Head(queue).data /\ queue' = Tail(queue)
      /\ cpu' = IF rest' # <<>> THEN [cpu EXCEPT !.pc = "source"] ELSE cpu
      /\ moving' = FALSE
      /\ UNCHANGED <<port, object, result, asked, torn, got>>
  BY Locally DEF WaitTake, Udp!Take, Goto, At, TypeOK, Arrived
<1>2. /\ Head(queue) \in Arrived /\ Tail(queue) \in Seq(Arrived)
      /\ Len(Tail(queue)) = Len(queue) - 1
      /\ \A i \in 1 .. Len(Tail(queue)) : Tail(queue)[i] = queue[i + 1]
  BY <1>1, HeadTailProperties
<1>3. /\ Len(queue) \in Nat /\ DOMAIN queue = 1 .. Len(queue) /\ Len(Tail(queue)) \in Nat
      /\ DOMAIN Tail(queue) = 1 .. Len(Tail(queue))
  BY <1>1, <1>2, LenProperties
<1>4. cpu' \in Locals /\ cpu'.pc \in {"wait", "source"}
  BY <1>1 DEF Locals, Labels
<1>5. 1 \in DOMAIN queue /\ Head(queue) = queue[1]
  BY <1>1, <1>3
<1>6. remote' \in {Server, Stranger} /\ rest' \in Seq(Nat)
  BY <1>1, <1>2 DEF Arrived
<1>7. TypeOK'
  <2>1. queue' \in Seq(Arrived)
    BY <1>1, <1>2
  <2>2. QED
    BY <1>1, <1>4, <1>6, <2>1 DEF TypeOK, Arrived, At, object, result
<1>8. ArrivedRight'
  <2>1. ASSUME NEW i \in DOMAIN queue', queue'[i].from = Server
        PROVE  \E query \in asked' : query.port = port' /\ queue'[i].data \in Replies(query)
    <3>1. i \in 1 .. Len(Tail(queue)) /\ i + 1 \in DOMAIN queue
      BY <1>1, <1>2, <1>3, <2>1
    <3>2. queue'[i] = queue[i + 1]
      BY <1>1, <1>2, <3>1
    <3> DEFINE j == i + 1
    <3>3. j \in DOMAIN queue /\ queue'[i] = queue[j]
      BY <3>1, <3>2
    <3> HIDE DEF j
    <3>4. QED
      BY <1>1, <2>1, <3>3 DEF DnsInv, ArrivedRight
  <2>2. QED
    BY <2>1 DEF ArrivedRight
<1>9. ServerRight'
  <2>1. iDNSServer' = Server
    BY <1>1 DEF DnsInv, ServerRight, At, object
  <2>2. remote' = Server => \E query \in asked' : query.port = port' /\ rest' \in Replies(query)
    BY <1>1, <1>5 DEF DnsInv, ArrivedRight
  <2>3. QED
    BY <1>4, <2>1, <2>2 DEF ServerRight, At
<1>10. HeaderRight' /\ CountsRight' /\ InAnswer' /\ AddressChecked' /\ AddressIsRight'
  BY <1>4 DEF HeaderRight, CountsRight, InAnswer, AddressChecked, AddressIsRight, At, Walking
<1>11. QED
  BY <1>1, <1>7, <1>8, <1>9, <1>10 DEF DnsInv

----------------------------------------------------------------------------
(* The steps before the answer and after it *)

\* At these labels the code relies on nothing but the server.
Resting == {"idle", "lookup", "request", "wait", "stop"}

LEMMA RestingStep ==
  ASSUME cpu'.pc \in Resting
  PROVE  HeaderRight' /\ CountsRight' /\ InAnswer' /\ AddressChecked'
  BY DEF HeaderRight, CountsRight, InAnswer, AddressChecked, At, Walking, Resting

LEMMA StopStep ==
  ASSUME DnsInv, Stop
  PROVE  DnsInv' /\ torn' = torn
<1>1. /\ TypeOK /\ UNCHANGED <<object, result, asked, torn, remote, got>>
      /\ queue' = <<>> /\ rest' = <<>> /\ port' = 0 /\ moving' = FALSE /\ cpu' = Idle
  BY Locally DEF Stop, Udp!Reset
<1>2. cpu' \in Locals /\ cpu'.pc = "idle"
  BY <1>1, IdleIsLocal
<1>3. TypeOK'
  <2>1. queue' \in Seq([from : {Server, Stranger}, data : Seq(Nat)]) /\ rest' \in Seq(Nat)
    BY <1>1
  <2>2. QED
    BY <1>1, <1>2, <2>1 DEF TypeOK, object, result, At
<1>4. ArrivedRight' /\ ServerRight' /\ AddressIsRight'
  BY <1>1, <1>2 DEF ArrivedRight, ServerRight, AddressIsRight, At
<1>5. QED
  BY <1>1, <1>2, <1>3, <1>4, RestingStep DEF DnsInv, Resting

LEMMA BeginStep ==
  ASSUME DnsInv, NEW server \in {INADDR_NONE, NOWHERE, Server}, Begin(server)
  PROVE  DnsInv' /\ torn' = FALSE
<1>1. /\ TypeOK /\ cpu \in Locals /\ cpu.pc = "idle" /\ UNCHANGED <<port, asked>>
      /\ iDNSServer' = server /\ iRequestId' = 0
      /\ queue' = <<>> /\ remote' = 0 /\ rest' = <<>> /\ got' = <<>> /\ moving' = FALSE
      /\ ret' = 0 /\ cpu' = [cpu EXCEPT !.pc = "lookup"] /\ torn' = FALSE
  BY Locally DEF Begin, Goto, At
<1>2. cpu' \in Locals /\ cpu'.pc = "lookup"
  BY <1>1 DEF Locals, Labels
<1>3. TypeOK'
  <2>1. ret' \in INVALID_SERVER .. WORD - 1
    BY <1>1 DEF INVALID_SERVER, WORD
  <2>2. queue' \in Seq([from : {Server, Stranger}, data : Seq(Nat)])
    BY <1>1
  <2>3. rest' \in Seq(Nat) /\ got' \in Seq(Nat)
    BY <1>1
  <2>4. QED
    BY <1>1, <1>2, <2>1, <2>2, <2>3 DEF TypeOK, At
<1>4. ArrivedRight' /\ ServerRight' /\ AddressIsRight'
  BY <1>1, <1>2 DEF ArrivedRight, ServerRight, AddressIsRight, At
<1>5. QED
  BY <1>1, <1>2, <1>3, <1>4, RestingStep DEF DnsInv, Resting

LEMMA LookupLocalStep ==
  ASSUME DnsInv, NEW host \in Hosts, LookupLocal(host)
  PROVE  DnsInv' /\ torn' = torn
<1>1. /\ TypeOK /\ cpu.pc = "lookup" /\ UNCHANGED <<socket, object, asked, torn>>
      /\ ret' \in {1, INVALID_SERVER, 0} /\ cpu' = Idle
  BY Locally DEF LookupLocal, At
<1>2. cpu' \in Locals /\ cpu'.pc = "idle"
  BY <1>1, IdleIsLocal
<1>3. TypeOK'
  <2>1. ret' \in INVALID_SERVER .. WORD - 1
    BY <1>1, SmallWords
  <2>2. /\ queue' = queue /\ remote' = remote /\ rest' = rest /\ got' = got /\ port' = port
        /\ moving' = moving /\ iDNSServer' = iDNSServer /\ iRequestId' = iRequestId
        /\ asked' = asked /\ torn' = torn
    BY <1>1 DEF socket, object
  <2>3. port = 0 /\ (port' = 0 <=> At("idle")' \/ At("lookup")')
    BY <1>1, <1>2, <2>2 DEF TypeOK, At
  <2>4. QED
    BY <1>1, <1>2, <2>1, <2>2, <2>3 DEF TypeOK
<1>4. ArrivedRight'
  BY <1>1 DEF DnsInv, ArrivedRight, socket
<1>5. ServerRight' /\ AddressIsRight'
  BY <1>2 DEF ServerRight, AddressIsRight, At
<1>6. QED
  BY <1>1, <1>2, <1>3, <1>4, <1>5, RestingStep DEF DnsInv, Resting

LEMMA LookupStep ==
  ASSUME DnsInv, NEW host \in Hosts, NEW local \in Ports, Lookup(host, local)
  PROVE  DnsInv' /\ torn' = torn
<1>1. /\ TypeOK /\ cpu.pc = "lookup" /\ ret = 0 /\ ~inet_aton(host).ok
      /\ iDNSServer # INADDR_NONE
      /\ UNCHANGED <<object, result, asked, torn, remote, got>>
      /\ queue' = <<>> /\ rest' = <<>> /\ port' = local /\ moving' = FALSE
      /\ cpu' = [Idle EXCEPT !.pc = "request", !.host = host]
  BY Locally DEF DnsInv, ServerRight, Lookup, At, Udp!Reset
<1>2. cpu' \in Locals /\ cpu'.pc = "request" /\ cpu'.host = host
  BY <1>1, IdleIsLocal DEF Locals, Labels, Idle
<1>3. TypeOK'
  <2>1. local # 0
    BY Sizes
  <2>2. queue' \in Seq([from : {Server, Stranger}, data : Seq(Nat)]) /\ rest' \in Seq(Nat)
    BY <1>1
  <2>3. QED
    BY <1>1, <1>2, <2>1, <2>2 DEF TypeOK, object, result, At
<1>4. ArrivedRight' /\ ServerRight' /\ AddressIsRight'
  BY <1>1, <1>2 DEF ArrivedRight, ServerRight, AddressIsRight, At, object, result
<1>5. QED
  BY <1>1, <1>2, <1>3, <1>4, RestingStep DEF DnsInv, Resting

LEMMA RequestStep ==
  ASSUME DnsInv, NEW id \in Ids, Request(id)
  PROVE  DnsInv' /\ torn' = torn
<1>1. /\ TypeOK /\ cpu.pc = "request" /\ ret = 0
      /\ cpu.host \in Hosts /\ ~inet_aton(cpu.host).ok /\ iDNSServer # INADDR_NONE
      /\ iDNSServer \in {INADDR_NONE, NOWHERE, Server}
      /\ port \in Ports /\ ret' = ret
      /\ UNCHANGED <<socket, iDNSServer, aResult, torn>>
  BY Locally DEF DnsInv, ServerRight, TypeOK, Request, At
<1>2. Idle.pc = "idle" /\ Idle \in Locals
  BY IdleIsLocal
<1>3. CASE /\ iDNSServer # NOWHERE /\ iRequestId' = id
           /\ asked' = asked \union {[id |-> id, port |-> port, name |-> Question(cpu.host)]}
           /\ cpu' = [Idle EXCEPT !.pc = "wait"]
  <2>1. Question(cpu.host) \in DOMAIN Zone
    BY <1>1, ZoneAssumption
  <2>2. asked' \subseteq Queries /\ asked \subseteq asked'
    BY <1>1, <1>3, <2>1 DEF TypeOK, Queries
  <2>3. cpu' \in Locals /\ cpu'.pc = "wait"
    BY <1>2, <1>3 DEF Locals, Labels
  <2>4. TypeOK'
    BY <1>1, <1>3, <2>2, <2>3 DEF TypeOK, socket, At
  <2>5. ArrivedRight'
    BY <1>1, <2>2 DEF DnsInv, ArrivedRight, socket
  <2>6. iDNSServer' = Server
    BY <1>1, <1>3
  <2>7. ServerRight' /\ AddressIsRight'
    BY <2>3, <2>6 DEF ServerRight, AddressIsRight, At
  <2>8. QED
    BY <1>1, <2>3, <2>4, <2>5, <2>7, RestingStep DEF DnsInv, Resting
<1>4. CASE /\ iRequestId' \in {iRequestId, id} /\ Leave /\ UNCHANGED asked
  <2>1. cpu' \in Locals /\ cpu'.pc = "stop"
    BY <1>2, <1>4 DEF Locals, Labels, Leave
  <2>2. TypeOK'
    BY <1>1, <1>4, <2>1 DEF TypeOK, socket, At
  <2>3. ArrivedRight'
    BY <1>1, <1>4 DEF DnsInv, ArrivedRight, socket
  <2>4. ServerRight' /\ AddressIsRight'
    BY <1>1, <2>1 DEF ServerRight, AddressIsRight, At, SUCCESS
  <2>5. QED
    BY <1>1, <2>1, <2>2, <2>3, <2>4, RestingStep DEF DnsInv, Resting
<1>5. QED
  BY <1>3, <1>4 DEF Request

LEMMA ArriveStep ==
  ASSUME DnsInv, NEW datagram \in Arrived, Arrive(datagram),
         datagram.from = Server =>
             \E query \in asked : query.port = port /\ datagram.data \in Replies(query)
  PROVE  DnsInv' /\ torn' = torn
<1>1. /\ TypeOK /\ queue \in Seq(Arrived) /\ queue' = Append(queue, datagram) /\ moving' = TRUE
      /\ UNCHANGED <<port, object, result, cpu, asked, torn, remote, rest, got>>
  BY Locally DEF Arrive, Udp!Arrive, TypeOK, Arrived
<1>2. /\ queue' \in Seq(Arrived) /\ Len(queue') = Len(queue) + 1
      /\ \A i \in 1 .. Len(queue) : queue'[i] = queue[i]
      /\ queue'[Len(queue) + 1] = datagram
  BY <1>1, AppendProperties
<1>3. /\ Len(queue) \in Nat /\ DOMAIN queue = 1 .. Len(queue)
      /\ DOMAIN queue' = 1 .. Len(queue')
  BY <1>1, <1>2, LenProperties
<1>4. TypeOK'
  BY <1>1, <1>2 DEF TypeOK, Arrived, object, result, At
<1>5. ArrivedRight'
  <2>1. ASSUME NEW i \in DOMAIN queue', queue'[i].from = Server
        PROVE  \E query \in asked' : query.port = port' /\ queue'[i].data \in Replies(query)
    <3>1. CASE i \in 1 .. Len(queue)
      BY <1>1, <1>2, <1>3, <2>1, <3>1 DEF DnsInv, ArrivedRight
    <3>2. CASE i = Len(queue) + 1
      BY <1>1, <1>2, <2>1, <3>2
    <3>3. QED
      BY <1>2, <1>3, <3>1, <3>2
  <2>2. QED
    BY <2>1 DEF ArrivedRight
<1>6. ServerRight' /\ HeaderRight' /\ CountsRight' /\ InAnswer' /\ AddressChecked' /\ AddressIsRight'
  <2>1. ServerRight'
    BY <1>1 DEF DnsInv, ServerRight, At, object, result
  <2>2. HeaderRight' /\ CountsRight' /\ AddressChecked'
    BY <1>1 DEF DnsInv, HeaderRight, CountsRight, AddressChecked, At
  <2>3. InAnswer'
    <3>1. CASE ~(cpu.pc \in Walking /\ ~torn)
      BY <1>1, <3>1 DEF InAnswer
    <3>2. CASE cpu.pc \in Walking /\ ~torn
      <4>1. PICK query \in Queries, n \in Nat : Stands(query, n) /\ InBody(query, n)
        BY <3>2, PlaceOf
      <4>2. Stands(query, n)'
        BY <1>1, <4>1 DEF Stands, object
      <4>3. InBody(query, n)'
        BY <1>1, <4>1 DEF InBody, InQuestion, InRecord, InName, At
      <4>4. QED
        BY <4>2, <4>3, Answers
    <3>3. QED
      BY <3>1, <3>2
  <2>4. AddressIsRight'
    BY <1>1 DEF DnsInv, AddressIsRight, At, object, result
  <2>5. QED
    BY <2>1, <2>2, <2>3, <2>4
<1>7. QED
  BY <1>1, <1>4, <1>5, <1>6 DEF DnsInv

LEMMA EnvironmentStep ==
  ASSUME DnsInv, Environment
  PROVE  DnsInv' /\ torn' = torn
<1>1. TypeOK
  BY Locally
<1>2. ASSUME NEW query \in asked, NEW data \in Replies(query), query.port = port,
             Arrive([from |-> Server, data |-> data])
      PROVE  DnsInv' /\ torn' = torn
  <2>1. data \in Seq(Nat)
    BY <1>1, RepliesAre DEF TypeOK
  <2> DEFINE datagram == [from |-> Server, data |-> data]
  <2>2. datagram \in Arrived /\ datagram.data = data
    BY <2>1 DEF Arrived
  <2>3. QED
    BY <1>2, <2>2, ArriveStep
<1>3. ASSUME NEW data \in {<<>>, << 0 >>}, Arrive([from |-> Stranger, data |-> data])
      PROVE  DnsInv' /\ torn' = torn
  <2>1. <<>> \in Seq(Nat) /\ << 0 >> \in Seq(Nat)
    OBVIOUS
  <2> DEFINE datagram == [from |-> Stranger, data |-> data]
  <2>2. datagram \in Arrived /\ datagram.from # Server
    BY <2>1, Sizes DEF Arrived
  <2>3. QED
    BY <1>3, <2>2, ArriveStep
<1>4. QED
  BY <1>2, <1>3 DEF Environment, ServerAnswers

----------------------------------------------------------------------------

\* A new lookup begins where the socket is closed.
LEMMA DnsInit ==
  ASSUME Init
  PROVE  DnsInv
<1>1. /\ queue = <<>> /\ remote = 0 /\ rest = <<>> /\ got = <<>> /\ port = 0 /\ moving = FALSE
      /\ iDNSServer = INADDR_NONE /\ iRequestId = 0 /\ aResult = 0 /\ ret = 0
      /\ cpu = Idle /\ asked = {} /\ torn = FALSE
  BY DEF Init, Udp!Init
<1>2. cpu \in Locals /\ cpu.pc = "idle"
  BY <1>1, IdleIsLocal
<1>3. ret \in INVALID_SERVER .. WORD - 1
  BY <1>1 DEF INVALID_SERVER, WORD
<1>4. queue \in Seq([from : {Server, Stranger}, data : Seq(Nat)])
  BY <1>1
<1>5. rest \in Seq(Nat) /\ got \in Seq(Nat)
  BY <1>1
<1>6. TypeOK
  BY <1>1, <1>2, <1>3, <1>4, <1>5 DEF TypeOK, At
<1>7. /\ ArrivedRight /\ ServerRight /\ HeaderRight /\ CountsRight /\ InAnswer
      /\ AddressChecked /\ AddressIsRight
  BY <1>1, <1>2 DEF ArrivedRight, ServerRight, HeaderRight, CountsRight, InAnswer,
                    AddressChecked, AddressIsRight, At, Walking
<1>8. QED
  BY <1>6, <1>7 DEF DnsInv

LEMMA DnsStep ==
  ASSUME DnsInv, [Next]_vars
  PROVE  DnsInv' /\ (~torn /\ torn' => moving)
<1>1. CASE Caller
  <2>1. ASSUME NEW server \in {INADDR_NONE, NOWHERE, Server}, Begin(server)
        PROVE  DnsInv' /\ torn' = FALSE
    BY <2>1, BeginStep
  <2>2. ASSUME NEW host \in Hosts, LookupLocal(host)
        PROVE  DnsInv' /\ torn' = torn
    BY <2>2, LookupLocalStep
  <2>3. ASSUME NEW host \in Hosts, NEW local \in Ports, Lookup(host, local)
        PROVE  DnsInv' /\ torn' = torn
    BY <2>3, LookupStep
  <2>4. ASSUME NEW id \in Ids, Request(id)
        PROVE  DnsInv' /\ torn' = torn
    BY <2>4, RequestStep
  <2>5. QED
    BY <1>1, <2>1, <2>2, <2>3, <2>4 DEF Caller
<1>2. CASE ProcessResponse
  <2>1. CASE WaitTake \/ CheckSource \/ CheckHeader \/ EndName \/ CheckAnswer \/ NoAnswer
    BY <2>1, WaitTakeStep, CheckSourceStep, CheckHeaderStep, EndNameStep, CheckAnswerStep,
       NoAnswerStep
  <2>2. CASE ReadHeader \/ ReadLength \/ SkipSection \/ SkipPointer \/ SkipQuestion
    BY <2>2, ReadHeaderStep, ReadLengthStep, SkipSectionStep, SkipPointerStep, SkipQuestionStep
  <2>3. CASE ReadRecord \/ ReadAddress \/ SkipData
    BY <2>3, ReadRecordStep, ReadAddressStep, SkipDataStep
  <2>4. QED
    BY <1>2, <2>1, <2>2, <2>3 DEF ProcessResponse
<1>3. CASE WaitTimeout \/ Stop
  BY <1>3, WaitTimeoutStep, StopStep
<1>4. CASE Environment
  BY <1>4, EnvironmentStep
<1>5. CASE UNCHANGED vars
  <2>1. /\ UNCHANGED <<queue, remote, rest, got, port, moving, iDNSServer, iRequestId>>
        /\ UNCHANGED <<aResult, ret, cpu, asked, torn>>
    BY <1>5 DEF vars, socket, object, result
  <2>2. TypeOK' /\ ArrivedRight' /\ ServerRight' /\ HeaderRight'
    BY <2>1 DEF DnsInv, TypeOK, ArrivedRight, ServerRight, HeaderRight, At
  <2>3. CountsRight' /\ AddressChecked' /\ AddressIsRight'
    BY <2>1 DEF DnsInv, CountsRight, AddressChecked, AddressIsRight, At
  <2>4. InAnswer'
    <3>1. CASE ~(cpu.pc \in Walking /\ ~torn)
      BY <2>1, <3>1 DEF InAnswer
    <3>2. CASE cpu.pc \in Walking /\ ~torn
      <4>1. PICK query \in Queries, n \in Nat : Stands(query, n) /\ InBody(query, n)
        BY <3>2, PlaceOf
      <4>2. Stands(query, n)'
        BY <2>1, <4>1 DEF Stands
      <4>3. InBody(query, n)'
        BY <2>1, <4>1 DEF InBody, InQuestion, InRecord, InName, At
      <4>4. QED
        BY <4>2, <4>3, Answers
    <3>3. QED
      BY <3>1, <3>2
  <2>5. QED
    BY <2>1, <2>2, <2>3, <2>4 DEF DnsInv
<1>6. QED
  BY <1>1, <1>2, <1>3, <1>4, <1>5 DEF Next

\* Whatever datagrams come in, and in which order, the code stands in an answer
\* to the query of its lookup where it takes itself to be, until a read fails.
THEOREM DnsInvariant == Spec => []DnsInv
<1>1. Init => DnsInv
  BY DnsInit
<1>2. DnsInv /\ [Next]_vars => DnsInv'
  BY DnsStep
<1>3. QED
  BY <1>1, <1>2, PTL DEF Spec

\* Every variable of DNSClient keeps its type, and its socket is open only
\* while a lookup is under way.
THEOREM DnsTyped == Spec => []TypeOK
<1>1. DnsInv => TypeOK
  BY DEF DnsInv
<1>2. QED
  BY <1>1, DnsInvariant, PTL

\* getHostByName returns an address that came over the network only if it is
\* one of the name that was asked for.
THEOREM AddressFound == Spec => []AddressIsRight
<1>1. DnsInv => AddressIsRight
  BY DEF DnsInv
<1>2. QED
  BY <1>1, DnsInvariant, PTL

\* ProcessResponse never reads beyond the end of an answer: a read fails only
\* where another datagram came in.
THEOREM StaysWithinAnswer == Spec => StaysInAnswer
<1>1. DnsInv /\ [Next]_vars => [~torn /\ torn' => moving]_vars
  BY DnsStep
<1>2. QED
  BY <1>1, DnsInvariant, PTL DEF Spec, StaysInAnswer
=============================================================================
