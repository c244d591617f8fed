----------------------------- MODULE CallStack -----------------------------
(***************************************************************************)
(* What the virtual machine promises to scripts: a stack of activations,   *)
(* each with local variables of its own.  A closure captures a variable by *)
(* reference: from then on the variable is a cell that the activation and  *)
(* the closures share, and it is still there when the activation is not.   *)
(* There are no registers to overlap and nothing to close.  An activation  *)
(* that waits for a native changes by the result of the native only,       *)
(* whatever scripts the native calls.                                      *)
(***************************************************************************)
EXTENDS Integers, Sequences, SequencesExt

CONSTANTS Value, NoValue, Upvalue, Function, None

VARIABLES
  stack,      \* the activations, the running one last
  store,      \* the values of the captured variables
  used,       \* the captured variables there are
  closures    \* the closures there are

vars == <<stack, store, used, closures>>

Running == stack[Len(stack)]
InNative == stack # << >> /\ Running.native # None
InScript == stack # << >> /\ Running.native = None

(* A local is a value, or the cell that holds it. *)
Local(r) == IF Running.locals[r] \in Upvalue THEN store[Running.locals[r]] ELSE Running.locals[r]

(* The last activation of s gets v for its variable r. *)
Put(s, r, v) ==
  IF s[Len(s)].locals[r] \in Upvalue
  THEN stack' = s /\ store' = [store EXCEPT ![s[Len(s)].locals[r]] = v]
  ELSE stack' = [s EXCEPT ![Len(s)].locals[r] = v] /\ UNCHANGED store

Init ==
  /\ stack = << >>
  /\ store = [u \in Upvalue |-> NoValue]
  /\ used = {}
  /\ closures = {}

(* Variables that are not parameters start with any value. *)
New == Last(stack')
Push ==
  /\ Len(stack') = Len(stack) + 1
  /\ stack' = Append(stack, New)
  /\ New.function \in Function
  /\ New.closure \in closures \cup {<< >>}
  /\ New.native = None
  /\ New.locals \in [0 .. New.function.registers - 1 -> Value]
  /\ UNCHANGED <<store, used, closures>>

(* A call from the host or from the native in progress *)
Enter ==
  /\ ~InScript
  /\ Push
  /\ New.return = None

Call ==
  /\ Push
  /\ \A i \in 0 .. New.function.params :
       /\ New.return + i \in DOMAIN Running.locals
       /\ i > 0 => New.locals[i - 1] = Local(New.return + i)

CallNative(dest) ==
  /\ stack' = [stack EXCEPT ![Len(stack)].native = dest]
  /\ UNCHANGED <<store, used, closures>>

NativeReturns ==
  /\ InNative
  /\ \E v \in Value : Put([stack EXCEPT ![Len(stack)].native = None], Running.native, v)
  /\ UNCHANGED <<used, closures>>

Assign(r) ==
  /\ \E v \in Value : Put(stack, r, v)
  /\ UNCHANGED <<used, closures>>

MakeClosure(r) ==
  \/ /\ Running.locals[r] \in Upvalue
     /\ closures' = closures \cup {<<Running.locals[r]>>}
     /\ UNCHANGED <<stack, store, used>>
  \/ /\ Running.locals[r] \notin Upvalue
     /\ \E u \in Upvalue \ used :
          /\ stack' = [stack EXCEPT ![Len(stack)].locals[r] = u]
          /\ store' = [store EXCEPT ![u] = Running.locals[r]]
          /\ used' = used \cup {u}
          /\ closures' = closures \cup {<<u>>}

PassOn(u) ==
  /\ closures' = closures \cup {<<u>>}
  /\ UNCHANGED <<stack, store, used>>

GetUpval(r, u) ==
  /\ Put(stack, r, store[u])
  /\ UNCHANGED <<used, closures>>

SetUpval(r, u) ==
  /\ store' = [store EXCEPT ![u] = Local(r)]
  /\ UNCHANGED <<stack, used, closures>>

Return(r) ==
  /\ IF Running.return = None THEN stack' = Front(stack) /\ UNCHANGED store
     ELSE Put(Front(stack), Running.return, Local(r))
  /\ UNCHANGED <<used, closures>>

ReturnVoid ==
  /\ stack' = Front(stack)
  /\ UNCHANGED <<store, used, closures>>

(* A failure ends everything that runs and leaves the captured variables. *)
Abort ==
  /\ stack' = << >>
  /\ UNCHANGED <<store, used, closures>>

Script ==
  \/ \E r \in DOMAIN Running.locals :
       \/ Assign(r) \/ MakeClosure(r) \/ Return(r) \/ CallNative(r)
       \/ \E i \in DOMAIN Running.closure : GetUpval(r, Running.closure[i]) \/ SetUpval(r, Running.closure[i])
  \/ \E i \in DOMAIN Running.closure : PassOn(Running.closure[i])
  \/ Call
  \/ ReturnVoid

Next == Abort \/ Enter \/ NativeReturns \/ (InScript /\ Script)

Spec == Init /\ [][Next]_vars

=============================================================================
