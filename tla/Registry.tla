------------------------------ MODULE Registry ------------------------------
(***************************************************************************)
(* What the reactor promises its users: a registry of one-shot waits.      *)
(*                                                                         *)
(* A registration is issued once and is live until it fires or is          *)
(* cancelled.  A firing moves it to a queue of notifications that the one  *)
(* owner consumes.  Cancelling, and completing from another thread, are    *)
(* answered: TRUE to exactly the caller that ended the registration,       *)
(* FALSE to everybody who comes later, however often identities' storage   *)
(* has been reused in between.                                             *)
(***************************************************************************)
EXTENDS Naturals, Sequences

CONSTANT Reg            \* the identities of registrations

VARIABLES issued,       \* registrations given out so far
          live,         \* neither fired nor cancelled
          queue,        \* fired, not yet consumed by the owner
          answer        \* result of the last cancellation or completion

vars == <<issued, live, queue, answer>>

NoAnswer == <<"none">>

Elements(s) == {s[i] : i \in DOMAIN s}

Init == /\ issued = {}
        /\ live = {}
        /\ queue = <<>>
        /\ answer = NoAnswer

Register(r) == /\ r \notin issued
               /\ issued' = issued \cup {r}
               /\ live' = live \cup {r}
               /\ answer' = NoAnswer
               /\ UNCHANGED queue

\* A registration that fails half way leaves no live wait behind.
Abandon(r) == /\ r \notin issued
              /\ issued' = issued \cup {r}
              /\ answer' = NoAnswer
              /\ UNCHANGED <<live, queue>>

\* Live registrations fire, each once, in some order.
Fire == /\ \E n \in 1..Len(queue') :
              LET old == SubSeq(queue', 1, Len(queue') - n)
                  new == SubSeq(queue', Len(queue') - n + 1, Len(queue'))
              IN  /\ old = queue
                  /\ \A i, j \in DOMAIN new : new[i] = new[j] => i = j
                  /\ Elements(new) \subseteq live
                  /\ live' = live \ Elements(new)
        /\ answer' = NoAnswer
        /\ UNCHANGED issued

Cancel(r) == /\ answer' = <<"cancel", r, r \in live>>
             /\ live' = live \ {r}
             /\ UNCHANGED <<issued, queue>>

Complete(r) == /\ answer' = <<"complete", r, r \in live>>
               /\ live' = live \ {r}
               /\ queue' = IF r \in live THEN Append(queue, r) ELSE queue
               /\ UNCHANGED issued

Consume == /\ queue # <<>>
           /\ queue' = Tail(queue)
           /\ answer' = NoAnswer
           /\ UNCHANGED <<issued, live>>

\* Everything else a call may do is invisible here.
Other == /\ answer' = NoAnswer
         /\ UNCHANGED <<issued, live, queue>>

Next == \/ \E r \in Reg : Register(r) \/ Abandon(r)
        \/ \E r \in issued : Cancel(r) \/ Complete(r)
        \/ Fire \/ Consume \/ Other

Spec == Init /\ [][Next]_vars
=============================================================================
