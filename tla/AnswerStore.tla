---------------------------- MODULE AnswerStore ----------------------------
(***************************************************************************)
(* What the Answer terminal promises.  An Answer ID names nothing until,   *)
(* in one step, a whole Answer of one invocation takes it; from then on    *)
(* the ID stands for that Answer for ever.  An invocation presents a       *)
(* receipt for at most one Answer, its own, and only after it is stored.   *)
(* Entries that no invocation wrote may take a free ID too.                *)
(***************************************************************************)
CONSTANTS Asks, Ids, None, Foreign

VARIABLES
  answers,   \* who wrote the Answer stored under each ID
  receipts   \* the ID each invocation presented a receipt for

storeVars == <<answers, receipts>>

StoreInit == answers = [id \in Ids |-> None] /\ receipts = [a \in Asks |-> None]

Store(id) ==
  /\ answers[id] = None
  /\ \E by \in Asks \union {Foreign} : answers' = [answers EXCEPT ![id] = by]
  /\ UNCHANGED receipts

Present(a) ==
  /\ receipts[a] = None
  /\ \E id \in Ids : answers[id] = a /\ receipts' = [receipts EXCEPT ![a] = id]
  /\ UNCHANGED answers

StoreNext == (\E id \in Ids : Store(id)) \/ (\E a \in Asks : Present(a))

StoreSpec == StoreInit /\ [][StoreNext]_storeVars

=============================================================================
