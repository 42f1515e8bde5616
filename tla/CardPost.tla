------------------------------ MODULE CardPost ------------------------------
(***************************************************************************)
(* What every durable group card of the bot promises, whatever protocol    *)
(* publishes it: at most one message is ever posted for a row, the row is  *)
(* only ever bound to that message, and a binding is final.  RoundCards,   *)
(* GameOutbox and RedPackets are shown to implement this module.           *)
(***************************************************************************)
EXTENDS Naturals

VARIABLES
    posts,  \* how many messages exist in the group for this row
    bound   \* the message id the row is bound to, 0 while it is NULL

Init == posts = 0 /\ bound = 0

\* Telegram accepts the one and only initial send.
Post == posts = 0 /\ posts' = 1 /\ UNCHANGED bound

\* The row learns the id of the message, from an answer or from a click.
Bind == posts = 1 /\ bound = 0 /\ bound' = 1 /\ UNCHANGED posts

Next == Post \/ Bind

Spec == Init /\ [][Next]_<<posts, bound>>
=============================================================================
