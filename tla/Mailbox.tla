-------------------------------- MODULE Mailbox --------------------------------
(***************************************************************************)
(* What the delivery pipeline promises to the people at its two ends, with *)
(* no queue, poller or session in sight.                                   *)
(*                                                                         *)
(* A message is posted; it may be taken by the recipient's side, once or   *)
(* several times; what was taken may be received, again once or several    *)
(* times.  A poster who waits gets one verdict: "ok" only for a message    *)
(* that was taken, and "timeout" either with the message withdrawn, after  *)
(* which it is never taken, or after it was taken.  The poster may also be *)
(* cut off without a verdict.                                              *)
(***************************************************************************)
CONSTANT Msg

VARIABLES
  state,    \* "new", "open" or "withdrawn"
  taken,    \* the recipient's side has had it
  got,      \* the recipient received it
  verdict   \* what the poster was told

mvars == <<state, taken, got, verdict>>

MInit ==
  /\ state = [m \in Msg |-> "new"]
  /\ taken = [m \in Msg |-> FALSE]
  /\ got = [m \in Msg |-> FALSE]
  /\ verdict = [m \in Msg |-> "none"]

Post(m) ==
  /\ state[m] = "new"
  /\ state' = [state EXCEPT ![m] = "open"]
  /\ \E v \in {"none", "waiting"} : verdict' = [verdict EXCEPT ![m] = v]
  /\ UNCHANGED <<taken, got>>

Take(S) ==
  /\ \A m \in S : state[m] = "open"
  /\ taken' = [m \in Msg |-> taken[m] \/ m \in S]
  /\ UNCHANGED <<state, got, verdict>>

Receive(m) ==
  /\ taken[m]
  /\ got' = [got EXCEPT ![m] = TRUE]
  /\ UNCHANGED <<state, taken, verdict>>

Confirm(m) ==
  /\ verdict[m] = "waiting" /\ taken[m]
  /\ verdict' = [verdict EXCEPT ![m] = "ok"]
  /\ UNCHANGED <<state, taken, got>>

Withdraw(m) ==
  /\ verdict[m] = "waiting" /\ ~taken[m]
  /\ state' = [state EXCEPT ![m] = "withdrawn"]
  /\ verdict' = [verdict EXCEPT ![m] = "timeout"]
  /\ UNCHANGED <<taken, got>>

GiveUp(m) ==
  /\ verdict[m] = "waiting" /\ taken[m]
  /\ verdict' = [verdict EXCEPT ![m] = "timeout"]
  /\ UNCHANGED <<state, taken, got>>

CutOff ==
  /\ verdict' = [m \in Msg |-> IF verdict[m] = "waiting" THEN "broken"
                                                         ELSE verdict[m]]
  /\ UNCHANGED <<state, taken, got>>

MNext ==
  \/ \E m \in Msg : Post(m) \/ Receive(m) \/ Confirm(m) \/ Withdraw(m) \/ GiveUp(m)
  \/ \E S \in SUBSET Msg : Take(S)
  \/ CutOff

MSpec == MInit /\ [][MNext]_mvars
=============================================================================
