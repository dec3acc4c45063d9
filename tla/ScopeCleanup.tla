---- MODULE ScopeCleanup ----
(***************************************************************************)
(* llvmbackend/statement_*.go: how the statement emitter places releases   *)
(* on the ways out of a scope.                                             *)
(*                                                                         *)
(* A behaviour is one path through the code emitted for some program: the  *)
(* choice of the action is the choice of the program's next statement, and *)
(* of the way its condition goes.  The emitter's stacks at a program point *)
(* depend only on the constructs open there, so the state is the emitter's *)
(* state at the point the path has reached, with what the path has         *)
(* released.  A path that returns, or throws out of the function, is       *)
(* followed by another activation.                                         *)
(*                                                                         *)
(* Every binding here is one the lifetime plan gives a scope-exit cleanup. *)
(* cleanupScopes is one sequence of bindings, in the order of their        *)
(* registration; a boundary between two scopes is a height in it.          *)
(***************************************************************************)
EXTENDS Integers, Sequences, FiniteSets

CONSTANTS
  Names,        (* names of the bindings                                    *)
  NoName,       (* no binding: a for without an init, a catch without a
                   pattern                                                  *)
  Labels,       (* statement labels                                         *)
  NoLabel,      (* no label                                                 *)
  MaxBindings,  (* declarations executed over a behaviour                   *)
  MaxDepth      (* constructs open at once                                  *)

ASSUME CleanupAssumption ==
  /\ NoName \notin Names
  /\ NoLabel \notin Labels
  /\ MaxBindings \in Nat
  /\ MaxDepth \in Nat

VARIABLES
  open,       (* the constructs around the point, outermost first          *)
  cleanups,   (* the registered bindings of the open scopes, oldest first   *)
  next,       (* bindings 1..next have been declared                        *)
  name,       (* the name of each binding                                   *)
  (* --- history --- *)
  released, doubled,  (* bindings released, and released more than once     *)
  left,       (* bindings whose scope control has left                      *)
  clashed,    (* bindings that were open together with another one of the
                 same name                                                  *)
  caughtOver, (* bindings that were open around a try statement when it
                 handled a throw                                            *)
  lastExit    (* the releases of the last step, in order, and for a break or
                 continue the constructs it should and does go to           *)

vars == <<open, cleanups, next, name, released, doubled, left, clashed,
          caughtOver, lastExit>>

Bindings == 1..MaxBindings
Kinds == {"block", "labeled", "loop", "for", "switch", "body",
          "try", "catch", "finally", "end"}
Loops == {"loop", "for"}
Breakable == Loops \cup {"switch"}
WithStatements == {"block", "labeled", "body", "try", "catch", "finally"}

(* kind "end" is a loop or a switch past its end label.  base: the height  *)
(* at which the construct's own scope starts.  keep: the height            *)
(* cleanupDepth stands for, what a jump to the construct's exit leaves.    *)
Constructs ==
  [kind : Kinds, label : Labels \cup {NoLabel}, base : Nat, keep : Nat,
   catches : BOOLEAN, finally : BOOLEAN]

NoExit == [releases |-> <<>>, wanted |-> 0, got |-> 0]

Depth == Len(open)
Height == Len(cleanups)
Top == open[Depth]
AcceptsStatement == Depth > 0 => Top.kind \in WithStatements

Init ==
  /\ open = <<>>
  /\ cleanups = <<>>
  /\ next = 0
  /\ name = [b \in Bindings |-> NoName]
  /\ released = {}
  /\ doubled = {}
  /\ left = {}
  /\ clashed = {}
  /\ caughtOver = {}
  /\ lastExit = NoExit

----------------------------------------------------------------------------
(* Registering and releasing.                                              *)

OpenBindings == {cleanups[i] : i \in 1..Height}

(* LoadLocal: by name, so the innermost open binding of that name.         *)
Resolve(n) ==
  CHOOSE b \in OpenBindings :
    name[b] = n /\ \A c \in OpenBindings : name[c] = n => c <= b

(* A declaration executed when the open bindings are below: it is stored   *)
(* in a slot of its own and registered in the innermost scope.             *)
DeclareAbove(below, n) ==
  /\ next < MaxBindings
  /\ next' = next + 1
  /\ name' = [name EXCEPT ![next + 1] = n]
  /\ cleanups' = Append(below, next + 1)
  /\ LET twins == {below[i] : i \in {j \in 1..Len(below) : name[below[j]] = n}}
     IN  clashed' = IF twins = {} THEN clashed ELSE clashed \cup twins \cup {next + 1}

(* Mutant: emitCleanupList goes forward.                                   *)
ReleasesForward(h) ==
  [i \in 1..(Height - h) |-> Resolve(name[cleanups[h + i]])]

(* emitCleanupsUntil: the innermost scope first, the last binding first.   *)
Releases(h) ==
  [i \in 1..(Height - h) |-> Resolve(name[cleanups[Height + 1 - i]])]

(* The effect of running the releases down to height h.                    *)
Release(h) ==
  LET list == Releases(h)
      targets == {list[i] : i \in 1..Len(list)}
      repeated == {b \in targets : \E i, j \in 1..Len(list) :
                                     i # j /\ list[i] = b /\ list[j] = b}
  IN  /\ released' = released \cup targets
      /\ doubled' = doubled \cup repeated \cup (released \cap targets)

(* Control leaves the scopes above height h.                               *)
LeaveTo(h) ==
  left' = left \cup {cleanups[i] : i \in (h + 1)..Height}

Below(h) == SubSeq(cleanups, 1, h)

----------------------------------------------------------------------------
(* Entering constructs.                                                    *)

(* Mutant: one scope too few is kept.                                      *)
KeepOneLess(h) == h - 1

(* cleanupDepth = len(cleanupScopes) at the time the exit is pushed.       *)
CleanupDepth(h) == h

Construct(k, l, base, h) ==
  [kind |-> k, label |-> l, base |-> base, keep |-> CleanupDepth(h),
   catches |-> FALSE, finally |-> FALSE]

(* enterLabel: a label is not reused inside its own statement.             *)
Usable(l) == \A i \in 1..Depth : l # NoLabel => open[i].label # l

Push(c) ==
  /\ Depth < MaxDepth
  /\ open' = Append(open, c)

Released == <<released, doubled, left, caughtOver>>
Registered == <<cleanups, next, name, clashed>>

(* A block, and each branch of an if.                                      *)
EnterBlock ==
  /\ AcceptsStatement
  /\ Push(Construct("block", NoLabel, Height, Height))
  /\ lastExit' = NoExit
  /\ UNCHANGED <<Registered, Released>>

(* The exit of a labeled block is pushed before its scope is entered.      *)
EnterLabeledBlock(l) ==
  /\ AcceptsStatement
  /\ Usable(l)
  /\ Push(Construct("labeled", l, Height, Height))
  /\ lastExit' = NoExit
  /\ UNCHANGED <<Registered, Released>>

(* while, and for in/of over an assignment target.                         *)
EnterLoop(l) ==
  /\ AcceptsStatement
  /\ Usable(l)
  /\ Push(Construct("loop", l, Height, Height))
  /\ lastExit' = NoExit
  /\ UNCHANGED <<Registered, Released>>

(* do while: its body is emitted once ahead of the loop, with an exit of   *)
(* the same labels, so the path is in a body at once.                      *)
EnterDoWhile(l) ==
  /\ AcceptsStatement
  /\ Usable(l)
  /\ Depth + 1 < MaxDepth
  /\ open' = open \o <<Construct("loop", l, Height, Height),
                       Construct("body", NoLabel, Height, Height)>>
  /\ lastExit' = NoExit
  /\ UNCHANGED <<Registered, Released>>

(* for in/of over a pattern: the pattern is declared in the scope around   *)
(* the loop.                                                               *)
EnterForEach(n, l) ==
  /\ AcceptsStatement
  /\ Depth > 0
  /\ Usable(l)
  /\ DeclareAbove(cleanups, n)
  /\ Push(Construct("loop", l, Height + 1, Height + 1))
  /\ lastExit' = NoExit
  /\ UNCHANGED Released

(* for: its scope is entered and its init emitted, then its exit is pushed.*)
EnterFor(n, l) ==
  /\ AcceptsStatement
  /\ Usable(l)
  /\ IF n = NoName
     THEN /\ Push(Construct("for", l, Height, Height))
          /\ UNCHANGED Registered
     ELSE /\ DeclareAbove(cleanups, n)
          /\ Push(Construct("for", l, Height, Height + 1))
  /\ lastExit' = NoExit
  /\ UNCHANGED Released

EnterSwitch(l) ==
  /\ AcceptsStatement
  /\ Usable(l)
  /\ Push(Construct("switch", l, Height, Height))
  /\ lastExit' = NoExit
  /\ UNCHANGED <<Registered, Released>>

(* The next iteration of a loop; a case of a switch, by a match or by      *)
(* falling through.                                                        *)
EnterBody ==
  /\ Depth > 0
  /\ Top.kind \in Breakable
  /\ Push(Construct("body", NoLabel, Height, Height))
  /\ lastExit' = NoExit
  /\ UNCHANGED <<Registered, Released>>

EnterTry(c, f) ==
  /\ AcceptsStatement
  /\ c \/ f
  /\ Push([Construct("try", NoLabel, Height, Height)
             EXCEPT !.catches = c, !.finally = f])
  /\ lastExit' = NoExit
  /\ UNCHANGED <<Registered, Released>>

(* At top level no scope is open and nothing is registered.  A name is     *)
(* declared once in a scope (semantic/statements.go).                      *)
Declare(n) ==
  /\ AcceptsStatement
  /\ Depth > 0
  /\ \A i \in (Top.base + 1)..Height : name[cleanups[i]] # n
  /\ DeclareAbove(cleanups, n)
  /\ lastExit' = NoExit
  /\ UNCHANGED <<open, Released>>

----------------------------------------------------------------------------
(* Leaving constructs.                                                     *)

Section(k, c, f) ==
  [Construct(k, NoLabel, c.base, c.base) EXCEPT !.finally = f]

(* The end of the construct's code is reached: a scope's end, a loop's     *)
(* false condition, a switch's last case, an end label.  The end of a try  *)
(* body and of a catch body leads to the finally body.                     *)
Leave ==
  /\ Depth > 0
  /\ LET c == Top IN
     /\ Release(c.base)
     /\ LeaveTo(c.base)
     /\ cleanups' = Below(c.base)
     /\ open' = IF c.finally
                THEN Append(SubSeq(open, 1, Depth - 1), Section("finally", c, FALSE))
                ELSE SubSeq(open, 1, Depth - 1)
     /\ lastExit' = [NoExit EXCEPT !.releases = Releases(c.base)]
  /\ UNCHANGED <<next, name, clashed, caughtOver>>

(* The labels an exit takes over from pendingLabels: those of every        *)
(* labeled statement around it, not only its own.                          *)
ExitLabels(k) == {open[j].label : j \in 1..k} \ {NoLabel}

(* Mutant: the search starts from the outermost exit.                      *)
InnermostFromOutside(S) == CHOOSE k \in S : \A j \in S : k <= j

Innermost(S) == CHOOSE k \in S : \A j \in S : j <= k

BreakExits(l) ==
  {k \in 1..Depth :
     IF l = NoLabel THEN open[k].kind \in Breakable
     ELSE open[k].kind \in Breakable \cup {"labeled"} /\ l \in ExitLabels(k)}

ContinueExits(l) ==
  {k \in 1..Depth :
     open[k].kind \in Loops /\ (l # NoLabel => l \in ExitLabels(k))}

(* What the language says: the statement a break or continue is for.       *)
Nearest(S) == CHOOSE k \in S : \A j \in S : j <= k

BreakTargets(l) ==
  {k \in 1..Depth :
     IF l = NoLabel THEN open[k].kind \in Breakable ELSE open[k].label = l}

ContinueTargets(l) ==
  {k \in 1..Depth :
     open[k].kind \in Loops /\ (l # NoLabel => open[k].label = l)}

(* Mutants: a break runs only the innermost scope's cleanups; all of them. *)
BoundaryInnermost(k) == Top.base
BoundaryAll(k) == 0
Boundary(k) == open[k].keep

(* What is registered where the jump lands: the body's scope is closed.    *)
LandingHeight(k) ==
  IF open[k].kind = "labeled" THEN open[k].base ELSE open[k + 1].base

JumpTo(k, wanted) ==
  /\ Release(Boundary(k))
  /\ LeaveTo(LandingHeight(k))
  /\ cleanups' = Below(LandingHeight(k))
  /\ lastExit' = [releases |-> Releases(Boundary(k)), wanted |-> wanted, got |-> k]
  /\ UNCHANGED <<next, name, clashed, caughtOver>>

(* The end label of a labeled block lies behind its scope; that of a loop  *)
(* or a switch is followed by the construct's own end.                     *)
Break(l) ==
  /\ AcceptsStatement
  /\ BreakTargets(l) # {}
  /\ LET k == Innermost(BreakExits(l)) IN
     /\ JumpTo(k, Nearest(BreakTargets(l)))
     /\ open' = IF open[k].kind = "labeled" THEN SubSeq(open, 1, k - 1)
                ELSE [SubSeq(open, 1, k) EXCEPT ![k].kind = "end"]

Continue(l) ==
  /\ AcceptsStatement
  /\ ContinueTargets(l) # {}
  /\ LET k == Innermost(ContinueExits(l)) IN
     /\ JumpTo(k, Nearest(ContinueTargets(l)))
     /\ open' = SubSeq(open, 1, k)

(* Return, and a throw no try statement of the function is open for.       *)
LeaveFunction ==
  /\ Release(0)
  /\ LeaveTo(0)
  /\ cleanups' = <<>>
  /\ open' = <<>>
  /\ lastExit' = [NoExit EXCEPT !.releases = Releases(0)]
  /\ UNCHANGED <<next, name, clashed, caughtOver>>

Return ==
  /\ AcceptsStatement
  /\ Depth > 0
  /\ LeaveFunction

(* The handler is pushed around the try body only.                         *)
Handlers == {k \in 1..Depth : open[k].kind = "try"}

ThrowOut ==
  /\ AcceptsStatement
  /\ Depth > 0
  /\ Handlers = {}
  /\ LeaveFunction

(* All active cleanups are emitted, those of the scopes around the try     *)
(* statement too, and control goes to its catch body, with the pattern     *)
(* declared in the catch scope, or else to its finally body.               *)
ThrowToHandler(n) ==
  /\ AcceptsStatement
  /\ Handlers # {}
  /\ LET k == Innermost(Handlers)
         c == open[k]
     IN  /\ Release(0)
         /\ LeaveTo(c.base)
         /\ caughtOver' = caughtOver \cup {cleanups[i] : i \in 1..c.base}
         /\ lastExit' = [NoExit EXCEPT !.releases = Releases(0)]
         /\ open' = Append(SubSeq(open, 1, k - 1),
                           IF c.catches THEN Section("catch", c, c.finally)
                           ELSE Section("finally", c, FALSE))
         /\ IF n = NoName
            THEN /\ cleanups' = Below(c.base)
                 /\ UNCHANGED <<next, name, clashed>>
            ELSE /\ c.catches
                 /\ DeclareAbove(Below(c.base), n)

----------------------------------------------------------------------------
Enter ==
  \/ EnterBlock
  \/ \E l \in Labels : EnterLabeledBlock(l)
  \/ \E l \in Labels \cup {NoLabel} : EnterLoop(l)
  \/ \E l \in Labels \cup {NoLabel} : EnterDoWhile(l)
  \/ \E n \in Names, l \in Labels \cup {NoLabel} : EnterForEach(n, l)
  \/ \E n \in Names \cup {NoName}, l \in Labels \cup {NoLabel} : EnterFor(n, l)
  \/ \E l \in Labels \cup {NoLabel} : EnterSwitch(l)
  \/ EnterBody
  \/ \E c, f \in BOOLEAN : EnterTry(c, f)

Exit ==
  \/ Leave
  \/ \E l \in Labels \cup {NoLabel} : Break(l) \/ Continue(l)
  \/ Return
  \/ ThrowOut
  \/ \E n \in Names \cup {NoName} : ThrowToHandler(n)

Next == Enter \/ (\E n \in Names : Declare(n)) \/ Exit

Spec == Init /\ [][Next]_vars

----------------------------------------------------------------------------
(* Properties.                                                             *)

TypeOK ==
  /\ open \in Seq(Constructs)
  /\ cleanups \in Seq(Bindings)
  /\ next \in 0..MaxBindings
  /\ name \in [Bindings -> Names \cup {NoName}]
  /\ released \subseteq Bindings
  /\ doubled \subseteq Bindings
  /\ left \subseteq Bindings
  /\ clashed \subseteq Bindings
  /\ caughtOver \subseteq Bindings
  /\ lastExit \in [releases : Seq(Bindings), wanted : Nat, got : Nat]

(* However a scope is left - by its end, a break or continue through any   *)
(* number of loops and blocks, a return or a throw - each of its bindings  *)
(* has by then been released once and only once.  Two cases are excepted:  *)
(* see ThrowReleasesOnce and ShadowedReleasedOnce.                         *)
LeftReleasedOnce == left \ (clashed \cup caughtOver) \subseteq released \ doubled

(* No exit releases a binding of a scope that stays open: the program may  *)
(* still use it.                                                           *)
OpenNotReleased == (OpenBindings \ (clashed \cup caughtOver)) \cap released = {}

(* One exit releases in the reverse order of declaration, across all the   *)
(* scopes it leaves.                                                       *)
ReverseOrder ==
  clashed = {} =>
    \A i, j \in 1..Len(lastExit.releases) :
      i < j => lastExit.releases[i] > lastExit.releases[j]

(* A break or continue never lands outside the statement it names or,      *)
(* without a label, outside the innermost one it can be for.               *)
JumpsStayInside == lastExit.got >= lastExit.wanted

----------------------------------------------------------------------------
(* What the repository says and the code does not do.                      *)

(* docs/statements.md:24, "throw, try, catch, and finally lower to         *)
(* abrupt-control paths that preserve cleanup and scope behavior", and     *)
(* docs/runtime_ownership.md:97: a finalizer runs at most once.             *)
ThrowReleasesOnce == doubled \subseteq clashed

(* docs/lowering.md:18, "restore scopes and cleanup paths consistently": a *)
(* program that uses a name again in an inner scope releases each of the   *)
(* two bindings once.                                                      *)
ShadowedReleasedOnce == doubled \subseteq caughtOver

(* docs/statements.md:19: labeled statements, break and continue are       *)
(* supported: a labeled jump goes to the statement that has the label.     *)
LabeledJumpsLand == lastExit.got = lastExit.wanted
====
