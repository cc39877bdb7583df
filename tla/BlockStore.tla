----------------------------- MODULE BlockStore -----------------------------
(***************************************************************************)
(* What the driver of mmc_sd_spi.c promises to disk_read and disk_write: a *)
(* request for some blocks is carried out block after block; RES_OK means  *)
(* that all of them were, RES_ERROR that perhaps not all were.  While the  *)
(* card is exchanged or lost during a request nothing is promised for it.  *)
(***************************************************************************)
EXTENDS Integers, Sequences

CONSTANTS
  Block,   \* block numbers
  Value,   \* contents of a block
  MaxBlks  \* bound: blocks of one request

VARIABLES
  store,   \* the blocks of the card in the slot
  req      \* the request: op, b, n, v, the blocks read so far, done, result

Ops == {"read", "write"}

Blank == [op |-> "none", b |-> 0, n |-> 0, v |-> 0, got |-> <<>>, done |-> 0,
          lost |-> FALSE, res |-> "RES_OK"]

Init == store \in [Block -> Value] /\ req = Blank

Start(op, b, n, v) ==
  /\ req.res # "busy"
  /\ req' = [op |-> op, b |-> b, n |-> n, v |-> v, got |-> <<>>, done |-> 0,
             lost |-> FALSE, res |-> "busy"]
  /\ UNCHANGED store

\* The last block ends the request.
Result == IF req.done + 1 = req.n THEN "RES_OK" ELSE "busy"

ReadBlock ==
  /\ req.res = "busy" /\ req.op = "read"
  /\ \E x \in Value :
       /\ ~req.lost => x = store[req.b + req.done]
       /\ req' = [req EXCEPT !.got = Append(@, x), !.done = @ + 1, !.res = Result]
  /\ UNCHANGED store

WriteBlock ==
  /\ req.res = "busy" /\ req.op = "write"
  /\ ~req.lost
  /\ store' = [store EXCEPT ![req.b + req.done] = req.v]
  /\ req' = [req EXCEPT !.done = @ + 1, !.res = Result]

Fail ==
  /\ req.res = "busy"
  /\ req' = [req EXCEPT !.res = "RES_ERROR"]
  /\ UNCHANGED store

\* A call of another kind follows.
Forget ==
  /\ req.res # "busy"
  /\ req' = Blank
  /\ UNCHANGED store

\* The card leaves the slot, or another one takes its place.
Exchange ==
  /\ store' \in [Block -> Value]
  /\ req' = [req EXCEPT !.lost = TRUE]

Next ==
  \/ \E op \in Ops, b \in Block, n \in 1 .. MaxBlks, v \in Value :
       b + n - 1 \in Block /\ Start(op, b, n, v)
  \/ ReadBlock \/ WriteBlock \/ Fail \/ Forget \/ Exchange

Spec == Init /\ [][Next]_<<store, req>>
=============================================================================
