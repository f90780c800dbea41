---------------------------- MODULE ListedCollector ----------------------------
(* The collecting query seen as a listing: Collector with a history variable *)
(* for what the chain ever held, and its mapping to Listing.                 *)
EXTENDS Collector

VARIABLE ever    \* history: the keys on chain at some time since the call

listedVars == <<vars, ever>>

ListInit == Init /\ ever = store

ListNext == Next /\ ever' = ever \cup store'

ListSpec == ListInit /\ [][ListNext]_listedVars /\ Fairness

\* A nil error with an error still unread is a listing cut short in silence.
Outcome ==
  CASE result = "none" -> "none"
    [] result = "ok" /\ errChan = <<>> -> "complete"
    [] result = "ok" /\ errChan # <<>> -> "truncated"
    [] OTHER -> "failed"

Abstract == INSTANCE Listing WITH
  present <- store, listed <- out, outcome <- Outcome, MayTruncate <- TRUE

\* The goroutine, the two channels and the select loop together implement a
\* listing: whatever interleaving of pages, sends, receives and changes on chain,
\* the slice only grows, in key order, out of items that were there during the
\* call, and a call that ends without an error anywhere is complete
\* (GetAttributedAccounts and the other collectors).
ImplementsListing == Abstract!Spec

\* The inductive invariant that carries the refinement: what is under way to the
\* caller comes from the chain.
FromChain ==
  /\ IndInv
  /\ store \subseteq ever /\ ever \subseteq Keys
  /\ page \subseteq ever
  /\ Items(Flow) \subseteq ever
================================================================================
