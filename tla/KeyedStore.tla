----------------------------- MODULE KeyedStore -----------------------------
(***************************************************************************)
(* What the document store of the TypeScript SDK promises its callers: a   *)
(* map from keys to objects, of which a call handles its arguments one by  *)
(* one and in their order, each by putting it at the key it has now or by  *)
(* removing what is there.  The array, the binary search and the splices   *)
(* of types.ts do not appear here; Configs is shown to implement this.     *)
(***************************************************************************)
EXTENDS Sequences

CONSTANTS Keys,     \* the kubernetesKeys
          Objects   \* the Kubernetes objects

VARIABLES key,      \* the kubernetesKey each object has now
          call,     \* the call in progress and the arguments it has left
          store     \* a partial function from Keys to Objects

vars == <<key, call, store>>

Empty == [k \in {} |-> k]
NoCall == [op |-> "none", args |-> <<>>]
Stored == {store[k] : k \in DOMAIN store}

Init ==
  /\ key \in [Objects -> Keys]
  /\ call = NoCall
  /\ store = Empty

\* Between calls the function may give any object any key.
Rename ==
  /\ call = NoCall
  /\ key' \in [Objects -> Keys]
  /\ UNCHANGED <<call, store>>

Request ==
  /\ call = NoCall
  /\ call' \in [op : {"insert", "delete"}, args : Seq(Objects)]
  /\ call'.args # <<>>
  /\ UNCHANGED <<key, store>>

Clear ==
  /\ call = NoCall
  /\ store' = Empty
  /\ UNCHANGED <<key, call>>

\* A copy is filled with the objects of the original, in some order.
Copy ==
  /\ call = NoCall
  /\ call'.op = "deepCopy"
  /\ {call'.args[i] : i \in DOMAIN call'.args} = Stored
  /\ store' = Empty
  /\ UNCHANGED key

Argument == Head(call.args)

NextArgument ==
  /\ call.args # <<>>
  /\ call' = IF Len(call.args) = 1 THEN NoCall
                                   ELSE [call EXCEPT !.args = Tail(call.args)]
  /\ UNCHANGED key

Put ==
  /\ call.op \in {"insert", "deepCopy"}
  /\ store' = [k \in DOMAIN store \cup {key[Argument]} |->
                 IF k = key[Argument] THEN Argument ELSE store[k]]
  /\ NextArgument

Remove ==
  /\ call.op = "delete"
  /\ store' = [k \in DOMAIN store \ {key[Argument]} |-> store[k]]
  /\ NextArgument

Next == Rename \/ Request \/ Clear \/ Copy \/ Put \/ Remove

Spec == Init /\ [][Next]_vars
=============================================================================
