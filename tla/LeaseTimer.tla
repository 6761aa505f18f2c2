----------------------------- MODULE LeaseTimer -----------------------------
(* The timers of a DHCP lease: what an ACK sets them to and how checkLease, *)
(* which Ethernet.maintain() calls, counts them down from a clock that      *)
(* wraps around.  What a request to the server does is the subject of Dhcp; *)
(* here it takes some time and ends with a lease or without.                *)
(*                                                                          *)
(* A definition whose comment begins with "Fault" is a plausible mistake in *)
(* the code, kept beside the definition it would replace.                   *)
EXTENDS Integers

CONSTANTS
    SEC,            \* ticks of millis() in a second (1000)
    WRAP,           \* values of millis() (2^32)
    DEFAULT_LEASE,  \* seconds
    Leases,         \* times a server names, in seconds
    PollGap         \* bound: most ticks from one reading of the clock to the next

ASSUME TimerAssumption ==
    /\ SEC \in Nat \ {0}
    /\ PollGap \in Nat /\ PollGap >= SEC
    /\ WRAP \in Nat /\ WRAP > PollGap
    /\ DEFAULT_LEASE \in Nat \ {0}
    /\ Leases \subseteq Nat \ {0}

VARIABLES
    now,            \* millis()
    stage,          \* where checkLease is: idle, check, renew, rebind?, rebind
    state,          \* _dhcp_state, as far as checkLease looks at it
    leaseTime, T1, T2, renewInSec, rebindInSec, lastCheck,
    since           \* history: ticks from the ACK to lastCheck

timers == <<leaseTime, T1, T2, renewInSec, rebindInSec, lastCheck, since>>
timersVars == <<now, stage, state, timers>>

\* begin() has not got a lease, or is not over.
TimersInit ==
    /\ now \in 0 .. WRAP - 1 /\ lastCheck = now
    /\ stage = "rebind" /\ state = "START"
    /\ leaseTime = 0 /\ T1 = 0 /\ T2 = 0 /\ renewInSec = 0 /\ rebindInSec = 0
    /\ since = 0

Elapsed == (now - lastCheck) % WRAP

\* The sketch calls maintain() more often than the clock wraps around.
Tick ==
    /\ Elapsed < PollGap
    /\ now' = (now + 1) % WRAP
    /\ UNCHANGED <<stage, state, timers>>

----------------------------------------------------------------------------
(* checkLease *)

\* Fault: a counter is not stopped at 0.
CountDownOn(counter, e) == counter - e

\* A counter that would run out before the next check but one runs out now.
CountDown(counter, e) == IF counter < e * 2 THEN 0 ELSE counter - e

\* History: time is measured as long as there is a lease.
Passed(ticks) == IF state = "LEASED" THEN since + ticks ELSE 0

\* Fault: the part of a second that is left over is dropped.
CountDropsRest ==
    /\ stage = "idle" /\ stage' = "check"
    /\ IF Elapsed >= SEC
       THEN LET e == Elapsed \div SEC
            IN  /\ lastCheck' = now
                /\ since' = Passed(Elapsed)
                /\ renewInSec' = CountDown(renewInSec, e)
                /\ rebindInSec' = CountDown(rebindInSec, e)
       ELSE UNCHANGED <<lastCheck, since, renewInSec, rebindInSec>>
    /\ UNCHANGED <<now, state, leaseTime, T1, T2>>

\* Fault: every call takes a new time stamp.
CountAlwaysStamps ==
    /\ stage = "idle" /\ stage' = "check"
    /\ LET e == Elapsed \div SEC
       IN  /\ lastCheck' = now
           /\ since' = Passed(e * SEC)
           /\ renewInSec' = CountDown(renewInSec, e)
           /\ rebindInSec' = CountDown(rebindInSec, e)
    /\ UNCHANGED <<now, state, leaseTime, T1, T2>>

Count ==
    /\ stage = "idle" /\ stage' = "check"
    /\ IF Elapsed >= SEC
       THEN LET e == Elapsed \div SEC
            IN  /\ lastCheck' = (now - (Elapsed % SEC)) % WRAP
                /\ since' = Passed(e * SEC)
                /\ renewInSec' = CountDown(renewInSec, e)
                /\ rebindInSec' = CountDown(rebindInSec, e)
       ELSE UNCHANGED <<lastCheck, since, renewInSec, rebindInSec>>
    /\ UNCHANGED <<now, state, leaseTime, T1, T2>>

\* if we have a lease but should renew, do it
RenewIfDue ==
    /\ stage = "check"
    /\ IF renewInSec = 0 /\ state = "LEASED"
       THEN stage' = "renew" /\ state' = "REREQUEST"
       ELSE stage' = "rebind?" /\ UNCHANGED state
    /\ UNCHANGED <<now, timers>>

\* if we have a lease or is renewing but should bind, do it
RebindIfDue ==
    /\ stage = "rebind?"
    /\ IF rebindInSec = 0 /\ state \in {"LEASED", "START"}
       THEN stage' = "rebind" /\ state' = "START"
       ELSE stage' = "idle" /\ UNCHANGED state
    /\ UNCHANGED <<now, timers>>

----------------------------------------------------------------------------
(* The end of request_DHCP_lease. *)

AfterRequest == IF stage = "renew" THEN "rebind?" ELSE "idle"

Times == {0} \union Leases

\* The options of a reply as they are read; 0 stands for an option that is not
\* there.  A read that fails unnoticed may lose any of them, or leave another
\* time in its place.
Options == [lease : Times, T1 : Times, T2 : Times]

\* What a server grants, when no read fails: T1 and T2, in order and within the
\* lease, or neither.
Granted == {g \in Options : (g.T1 = 0) = (g.T2 = 0) /\ g.T1 <= g.T2 /\ g.T2 <= g.lease}

\* A field is 0 as long as no option has set it.
OrElse(value, default) == IF value # 0 THEN value ELSE default

\* parseDHCPResponse: an option that is not there leaves its field as it is,
\* and every reply that is accepted is parsed, whatever comes of it.
Parsed(g) ==
    /\ stage \in {"renew", "rebind"}
    /\ leaseTime' = OrElse(g.lease, leaseTime)
    /\ T1' = OrElse(g.T1, T1) /\ T2' = OrElse(g.T2, T2)
    /\ renewInSec' = OrElse(g.lease, renewInSec)
    /\ UNCHANGED <<now, stage, state, rebindInSec, lastCheck, since>>

\* The ACK: a field that is still 0 is calculated.
Acked(g) ==
    /\ stage \in {"renew", "rebind"} /\ stage' = AfterRequest
    /\ state' = "LEASED"
    /\ leaseTime' = OrElse(OrElse(g.lease, leaseTime), DEFAULT_LEASE)
    /\ T1' = OrElse(OrElse(g.T1, T1), leaseTime' \div 2)
    /\ T2' = OrElse(OrElse(g.T2, T2), leaseTime' - (leaseTime' \div 8))
    /\ renewInSec' = T1' /\ rebindInSec' = T2'
    /\ lastCheck' = now /\ since' = 0
    /\ UNCHANGED now

\* The timeout is over.  The state is START, or what the last message has
\* made of it.
Failed ==
    /\ stage \in {"renew", "rebind"} /\ stage' = AfterRequest
    /\ state' \in {"START", "DISCOVER", "REQUEST"}
    /\ lastCheck' = now /\ since' = 0
    /\ UNCHANGED <<now, leaseTime, T1, T2, renewInSec, rebindInSec>>

\* There is no socket for the request.
RequestUnsent ==
    /\ stage \in {"renew", "rebind"} /\ stage' = AfterRequest
    /\ UNCHANGED <<now, state, timers>>

Request(options) == (\E g \in options : Acked(g)) \/ Failed \/ RequestUnsent

CheckLease == Count \/ RenewIfDue \/ RebindIfDue

\* beginWithDHCP, when the sketch calls begin() once more.
BeginAgain ==
    /\ stage = "idle"
    /\ stage' = "rebind" /\ state' = "START"
    /\ leaseTime' = 0 /\ T1' = 0 /\ T2' = 0
    /\ UNCHANGED <<now, renewInSec, rebindInSec, lastCheck, since>>

TimersStep(options) ==
    \/ Tick \/ CheckLease \/ BeginAgain
    \/ (\E g \in options : Parsed(g))
    \/ Request(options)

TimersNext == TimersStep(Options)

TimersSpec == TimersInit /\ [][TimersNext]_timersVars

\* Time goes on, loop() calls maintain(), and a request is over some time.
FairTimers ==
    /\ TimersSpec
    /\ WF_timersVars(Tick)
    /\ WF_timersVars(CheckLease)
    /\ WF_timersVars(Request(Options))

\* No read fails.
SmoothSpec == TimersInit /\ [][TimersStep(Granted)]_timersVars

----------------------------------------------------------------------------
(* Properties *)

\* Every variable has its type; a counter never wraps around below 0.
TimersTypeOK ==
    /\ now \in 0 .. WRAP - 1 /\ lastCheck \in 0 .. WRAP - 1
    /\ stage \in {"idle", "check", "renew", "rebind?", "rebind"}
    /\ state \in {"START", "DISCOVER", "REQUEST", "LEASED", "REREQUEST"}
    /\ leaseTime \in Nat /\ T1 \in Nat /\ T2 \in Nat
    /\ renewInSec \in Nat /\ rebindInSec \in Nat
    /\ since \in Nat

\* The counters of a lease do not drift, however irregularly maintain() is
\* called and wherever the clock wraps around: what they say is left of T1 and
\* T2 is what is left, to the tick.  So a renewal is never late by more than
\* the time between two calls of maintain().
Exact(counter, t) == counter = 0 \/ counter * SEC = t * SEC - since

CountersExact ==
    state = "LEASED" => Exact(renewInSec, T1) /\ Exact(rebindInSec, T2)

\* A lease is renewed some day, however often maintain() is called.
RenewalComes == state = "LEASED" ~> stage \in {"renew", "rebind"}

\* A request is only made without a lease: what the replies do to T1 and T2
\* does not touch a running counter.
NoLeaseInRequest == stage \in {"renew", "rebind"} => state # "LEASED"

TimerInv == TimersTypeOK /\ NoLeaseInRequest /\ CountersExact

----------------------------------------------------------------------------
(* What is said of the code and does not hold of it. *)

\* T1 and T2 lie within the lease they belong to.  (It does not hold: a T1 of
\* an earlier lease survives an ACK that names none, and is not calculated, even
\* when no read fails.)
TimersWithinLease ==
    state = "LEASED" => T1 <= T2 /\ T2 <= leaseTime
=============================================================================
