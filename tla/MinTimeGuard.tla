---------------------------- MODULE MinTimeGuard ----------------------------
(***************************************************************************)
(* What chaosmonkey.Checker promises (chaosmonkey.go): a check is one      *)
(* indivisible step that either finds a recorded termination standing in   *)
(* the way, and refuses, or finds none, and records the termination.  No   *)
(* transactions, no locks.  TerminationChecker implements it.              *)
(***************************************************************************)
EXTENDS Sequences, Naturals

CONSTANTS Proc,            \* the calls of Check, each by its own process
          Request,         \* the terminations that may be asked for
          Forbids(_, _)    \* Forbids(r, q): r, once recorded, forbids q

VARIABLES record,          \* the terminations recorded, oldest first
          answer           \* what each call has been told

vars == <<record, answer>>

Entry == [by: Proc, req: Request]

Answer == {"none", "permitted", "refused", "failed"}

Init == /\ record = << >>
        /\ answer = [p \in Proc |-> "none"]

InTheWay(q) == \E i \in DOMAIN record : Forbids(record[i].req, q)

\* The answer may be lost with the process that asked.
Permit(p, q) ==
  /\ answer[p] = "none"
  /\ ~InTheWay(q)
  /\ record' = Append(record, [by |-> p, req |-> q])
  /\ answer' \in {answer, [answer EXCEPT ![p] = "permitted"]}

Refuse(p, q) ==
  /\ answer[p] = "none"
  /\ InTheWay(q)
  /\ answer' = [answer EXCEPT ![p] = "refused"]
  /\ UNCHANGED record

Fail(p) ==
  /\ answer[p] = "none"
  /\ answer' = [answer EXCEPT ![p] = "failed"]
  /\ UNCHANGED record

Next == \E p \in Proc : \/ Fail(p)
                        \/ \E q \in Request : Permit(p, q) \/ Refuse(p, q)

Spec == Init /\ [][Next]_vars

(***************************************************************************)
(* No recorded termination was forbidden by an earlier one.                *)
(***************************************************************************)
RecordsKeepApart ==
  \A i, j \in DOMAIN record : i < j => ~Forbids(record[i].req, record[j].req)
=============================================================================
