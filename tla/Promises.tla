---- MODULE Promises ----
(***************************************************************************)
(* What the promises of the previous runtime                               *)
(* (old_version/runtime/jayess_runtime.c, old_version/docs/async.md)       *)
(* promise: a promise is settled once, and as the promises it was made     *)
(* from allow.  Nothing is said of queues, tasks, threads or of when.      *)
(***************************************************************************)
EXTENDS Integers, Sequences

CONSTANTS
  Promise, (* the promises that may be created                              *)
  Plain    (* an input of a combinator that is no promise                   *)

VARIABLES
  status, (* absent, pending, fulfilled or rejected                         *)
  rule    (* how a pending promise is to be settled                         *)

Kinds == {"then", "finally", "all", "race", "allSettled", "any", "sleep", "io", "lost"}

(* of: the promises it depends on.  handled: the outcomes of the source    *)
(* of a then or finally that a callback is there for.                      *)
NoRule == [kind |-> "none", of |-> <<>>, handled |-> {}]

StatusOf(i) == IF i = Plain THEN "fulfilled" ELSE status[i]

Inputs(p) == {StatusOf(rule[p].of[i]) : i \in DOMAIN rule[p].of}

(* The outcomes a pending promise may be settled with now.                 *)
Allowed(p) ==
  CASE rule[p].kind \in {"then", "finally"} /\ "pending" \in Inputs(p) -> {}
    [] rule[p].kind = "then" ->
         IF Inputs(p) \subseteq rule[p].handled THEN {"fulfilled", "rejected"} ELSE Inputs(p)
    [] rule[p].kind = "finally" ->
         IF rule[p].handled = {} THEN Inputs(p) ELSE Inputs(p) \union {"rejected"}
    [] rule[p].kind = "all" ->
         {s \in {"fulfilled", "rejected"} : IF s = "rejected" THEN s \in Inputs(p)
                                            ELSE Inputs(p) \subseteq {s}}
    [] rule[p].kind = "race" ->
         IF Inputs(p) = {} THEN {"fulfilled"} ELSE Inputs(p) \ {"pending"}
    [] rule[p].kind = "allSettled" ->
         IF "pending" \in Inputs(p) THEN {} ELSE {"fulfilled"}
    [] rule[p].kind = "any" ->
         {s \in {"fulfilled", "rejected"} : IF s = "fulfilled" THEN s \in Inputs(p)
                                            ELSE Inputs(p) \subseteq {s}}
    [] rule[p].kind = "sleep" -> {"fulfilled"}
    [] rule[p].kind = "io" -> {"fulfilled", "rejected"}
    [] OTHER -> {}

Init ==
  /\ status = [p \in Promise |-> "absent"]
  /\ rule = [p \in Promise |-> NoRule]

Create(p) ==
  /\ status[p] = "absent"
  /\ \/ \E s \in {"fulfilled", "rejected"} :
          status' = [status EXCEPT ![p] = s] /\ UNCHANGED rule
     \/ /\ status' = [status EXCEPT ![p] = "pending"]
        /\ rule' = [rule EXCEPT ![p] = rule'[p]]
        /\ rule'[p].kind \in Kinds \ {"lost"}
        /\ \A i \in DOMAIN rule'[p].of :
             rule'[p].of[i] # Plain => status[rule'[p].of[i]] # "absent"

Settle(p) ==
  /\ status[p] = "pending"
  /\ \E s \in Allowed(p) : status' = [status EXCEPT ![p] = s]
  /\ rule' = [rule EXCEPT ![p] = NoRule]

(* A callback answered with a promise that is pending: p follows it.       *)
Follow(p) ==
  /\ status[p] = "pending"
  /\ rule[p].kind = "then"
  /\ Inputs(p) \subseteq rule[p].handled
  /\ \E q \in Promise :
       /\ status[q] = "pending"
       /\ rule' = [rule EXCEPT ![p] = [kind |-> "then", of |-> <<q>>, handled |-> {}]]
  /\ UNCHANGED status

(* clearTimeout(0) takes a sleep that nobody has a number for.             *)
Lose(p) ==
  /\ status[p] = "pending"
  /\ rule[p].kind = "sleep"
  /\ rule' = [rule EXCEPT ![p] = [NoRule EXCEPT !.kind = "lost"]]
  /\ UNCHANGED status

Next == \E p \in Promise : Create(p) \/ Settle(p) \/ Follow(p) \/ Lose(p)

Spec == Init /\ [][Next]_<<status, rule>>
====
