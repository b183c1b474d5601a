---------------------------- MODULE CameraFeed ----------------------------
(***************************************************************************)
(* What the coordinator promises its consumers: a feed of on-sets.  Each   *)
(* consumer walks, at its own pace and without skipping, along one history *)
(* of the set of devices that are on, in which neighbours differ by one    *)
(* device.  path[c] is the part of the history consumer c has before it:   *)
(* it starts with what c believes and ends with the truth.  The promise    *)
(* ends when the feed stops.                                               *)
(***************************************************************************)
EXTENDS Naturals, Sequences

CONSTANTS
  Devices, Consumers,
  MaxLag    \* consumer -> the most on-sets its path may have

VARIABLES path, live

feedVars == <<path, live>>

Start == [c \in Consumers |-> <<{}>>]
Toggle(s, d) == IF d \in s THEN s \ {d} ELSE s \cup {d}
Extend(p, d) == Append(p, Toggle(p[Len(p)], d))

Init == path = Start /\ live = TRUE

(* Device d goes on or off: every consumer will have to hear of it.        *)
Switch(d) ==
  /\ live /\ UNCHANGED live
  /\ \A c \in Consumers : Len(path[c]) < MaxLag[c]
  /\ path' = [c \in Consumers |-> Extend(path[c], d)]

(* Consumer c takes the next step of its history.                          *)
Observe(c) ==
  /\ live /\ UNCHANGED live
  /\ Len(path[c]) > 1
  /\ path' = [path EXCEPT ![c] = Tail(@)]

Stop == live /\ live' = FALSE /\ path' = Start

Next == \/ \E d \in Devices : Switch(d)
        \/ \E c \in Consumers : Observe(c)
        \/ Stop

Spec == Init /\ [][Next]_feedVars

=============================================================================
