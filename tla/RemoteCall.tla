----------------------------- MODULE RemoteCall -----------------------------
(***************************************************************************)
(* What a program may rely on when it calls XmlRpcClient::execute: calls   *)
(* are made one at a time, the other program carries them out in their     *)
(* order, each at most twice, and a call that returns true was carried     *)
(* out.  A call that returns false may have been carried out, may be       *)
(* carried out later, or never.                                            *)
(***************************************************************************)
EXTENDS Naturals, Sequences

CONSTANT MaxCalls   \* bound: calls in a behaviour

VARIABLES
    begun,     \* the calls begun; the last of them may be under way
    returned,  \* what each call that has ended returned
    done       \* the calls the server carried out, oldest first

callVars == <<begun, returned, done>>

Times(n) == {k \in DOMAIN done : done[k] = n}

Init == begun = 0 /\ returned = <<>> /\ done = <<>>

Call ==
    /\ Len(returned) = begun /\ begun < MaxCalls
    /\ begun' = begun + 1
    /\ UNCHANGED <<returned, done>>

\* The server carries out call n, even after the call has ended.
CarryOut(n) ==
    /\ \A k \in DOMAIN done : done[k] <= n
    /\ Times(n) = {} \/ \E k \in DOMAIN done : Times(n) = {k}
    /\ done' = Append(done, n)
    /\ UNCHANGED <<begun, returned>>

Return(ok) ==
    /\ Len(returned) < begun
    /\ ok => Times(begun) # {}
    /\ returned' = Append(returned, ok)
    /\ UNCHANGED <<begun, done>>

Next == \/ Call
        \/ \E n \in 1..begun : CarryOut(n)
        \/ \E ok \in BOOLEAN : Return(ok)

Spec == Init /\ [][Next]_callVars
=============================================================================
