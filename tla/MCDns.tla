------------------------------- MODULE MCDns -------------------------------
(* A host with an alias before its address and one without, a numeric host  *)
(* and one whose name has empty sections; texts of digits, dots and letters.*)
EXTENDS Dns

LETTER == 11

MCHosts == {<<11>>, <<12, 10, 10, 13>>, <<1, 10, 2, 10, 10, 3>>}

\* A record without its place, and a name's records each in its place.
Bare(name, type, data) == [name |-> name, type |-> type, class |-> CLASS_IN, data |-> data]

Answer(bare) ==
    LET CellsOf(records) == FlattenSeq([i \in DOMAIN records |-> RecordCells(records[i])])
    IN  [cells |-> CellsOf(bare),
         records |-> [i \in DOMAIN bare |->
             [at |-> 1 + Len(CellsOf(SubSeq(bare, 1, i - 1))), name |-> bare[i].name,
              type |-> bare[i].type, class |-> bare[i].class, data |-> bare[i].data]]]

MCZone ==
    (<<1, 11, 0>> :>
        Answer(<<Bare(<<192, 1>>, 5, <<1, 14, 0>>), Bare(<<1, 14, 0>>, TYPE_A, <<71>>)>>))
    @@ (<<1, 12, 1, 13, 0>> :> Answer(<<Bare(<<192, 1>>, TYPE_A, <<72>>)>>))

MCTexts == UNION {[1 .. n -> {2, 5, 6, DOT, LETTER}] : n \in 0 .. 6}

\* inet_aton keeps no state: it is compared with its definition once.
ASSUME AtonIsAddress
=============================================================================
