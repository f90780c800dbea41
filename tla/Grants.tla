-------------------------------- MODULE Grants --------------------------------
(***************************************************************************)
(* Authz grants of one granter to one grantee: the queries                  *)
(* ContractCommitmentGrants (one message type) and ContractExecutionGrants  *)
(* (all of them, page by page with allGrants), the filter by expiry on the  *)
(* client's clock, GrantContractCommitFunds, and the contract that uses a   *)
(* grant after HasContractCommitmentGrant said yes.                         *)
(*                                                                          *)
(* The chain is external: grants are given, replaced, revoked, expire with  *)
(* block time and are pruned some time later.  A grant without expiration   *)
(* expires at Never, which is later than any time.                          *)
(***************************************************************************)
EXTENDS Integers, FiniteSets, SequencesExt

CONSTANTS
  Kinds,      \* the queries that are made: "commitment", "execution"
  Urls,       \* message types, in the order the node lists their grants
  Commit,     \* that of MsgCommitFunds, the type of a "commitment" query
  Ours,       \* those whose authorization, if an execution one, names the contract
  PageSize,   \* Limit of a page request (100)
  MaxTime,    \* bound: block times 0..MaxTime
  Never,      \* the expiration of a grant that has none
  Skews       \* how far the client's clock may be ahead of the chain's

ASSUME GrantAssumption ==
  /\ Kinds \subseteq {"commitment", "execution"}
  /\ Urls \subseteq Nat \ {0} /\ IsFiniteSet(Urls)
  /\ Commit \in Urls /\ Ours \subseteq Urls
  /\ PageSize \in Nat \ {0} /\ MaxTime \in Nat
  /\ Skews \subseteq Int
  /\ Never \in Nat /\ \A s \in Skews : Never > MaxTime + s /\ Never > MaxTime

VARIABLES
  kind,             \* which of the two queries is made
  time, skew,       \* block time; the client's clock is at time + skew
  expires,          \* chain: when the grant of each type expires, 0 without one
  stable, ever,     \* history: types granted ever since, grants seen at some time
  qpc, nextKey,     \* where the query stands, the key of its next page request
  listed,           \* the grants collected
  kept,             \* the grants that are returned
  result,           \* "none" while the query runs, then "ok" or "err"
  gpc, want,        \* GrantContractCommitFunds: where it stands, its expiration
  pending,          \* expirations of grant transactions a block may still take
  promised,         \* history: what the last grant answered ok expires at, until
                    \* the chain's grant is replaced or revoked
  asked,            \* history: promised when the commitment query was answered
  lost,             \* history: the grant was replaced or revoked since then
  foundAt,          \* history: block time when the query returned
  used              \* "no", "accepted" or "rejected": the contract's use of it

chainVars == <<expires, stable, ever>>
queryVars == <<qpc, nextKey, listed, kept, result>>
grantVars == <<gpc, want, pending, promised>>
checkVars == <<asked, lost, foundAt>>
vars == <<kind, time, skew, chainVars, queryVars, grantVars, checkVars, used>>

Clock == time + skew
Held == {u \in Urls : expires[u] # 0}
Grant(u) == [url |-> u, exp |-> expires[u]]
Expirations == 1..MaxTime \cup {Never}

Init ==
  /\ kind \in Kinds
  /\ time = 0 /\ skew \in Skews
  /\ expires \in [Urls -> {0, MaxTime, Never}]
  /\ stable = Held
  /\ ever = {Grant(u) : u \in Held}
  /\ qpc = "page" /\ nextKey = 0
  /\ listed = <<>> /\ kept = {} /\ result = "none"
  /\ gpc = "idle" /\ want = 0 /\ pending = {} /\ promised = 0
  /\ asked = 0 /\ lost = FALSE /\ foundAt = 0
  /\ used = "no"

--------------------------------------------------------------------------------
(* The chain.                                                              *)

Tick ==
  /\ time < MaxTime
  /\ time' = time + 1
  /\ UNCHANGED <<kind, skew, chainVars, queryVars, grantVars, checkVars, used>>

\* The histories follow what becomes of the grants.
Track ==
  /\ stable' = {u \in stable : expires'[u] # 0}
  /\ ever' = ever \cup {[url |-> u, exp |-> expires'[u]] : u \in {v \in Urls : expires'[v] # 0}}

\* A transaction of somebody else gives, replaces or revokes a grant.
Change(u, e) ==
  /\ e = 0 \/ e > time
  /\ e # expires[u]
  /\ expires' = [expires EXCEPT ![u] = e]
  /\ Track
  /\ promised' = IF u = Commit THEN 0 ELSE promised
  /\ lost' = (lost \/ u = Commit)
  /\ UNCHANGED <<kind, time, skew, queryVars, gpc, want, pending, asked, foundAt, used>>

\* An expired grant is removed at the beginning of some block.
Prune(u) ==
  /\ expires[u] \in 1..time
  /\ expires' = [expires EXCEPT ![u] = 0]
  /\ Track
  /\ UNCHANGED <<kind, time, skew, queryVars, grantVars, checkVars, used>>

\* The contract uses the grant that was found.
Use ==
  /\ kind = "commitment" /\ kept # {} /\ used = "no"
  /\ used' = IF expires[Commit] # 0 /\ time <= expires[Commit]
             THEN "accepted" ELSE "rejected"
  /\ UNCHANGED <<kind, time, skew, chainVars, queryVars, grantVars, checkVars>>

--------------------------------------------------------------------------------
(* allGrants: one page request after the other.                            *)

Matching == {u \in Held : nextKey <= u}
Page == {u \in Matching : Cardinality({v \in Matching : v < u}) < PageSize}
Rest == Matching \ Page

\* The order in which the node lists the grants of a page.
Listings(urls) ==
  {s \in [1..Cardinality(urls) -> urls] :
     /\ ToSet(s) = urls
     /\ \A i, j \in DOMAIN s : i < j => s[i] < s[j]}

\* Mutant of Collect: a page replaces the pages before it.
CollectLast(urls) ==
  \E s \in Listings(urls) : listed' = [i \in DOMAIN s |-> Grant(s[i])]

\* Mutant of Collect: out is made with the length of the page and appended to.
CollectPadded(urls) ==
  \E s \in Listings(urls) :
    listed' = [i \in DOMAIN s |-> [url |-> 0, exp |-> 0]]
                \o listed \o [i \in DOMAIN s |-> Grant(s[i])]

\* out = append(out, resp.Grants...)
Collect(urls) ==
  \E s \in Listings(urls) : listed' = listed \o [i \in DOMAIN s |-> Grant(s[i])]

\* Mutant of MorePages: key is not set for the next request.
MorePagesSameKey ==
  /\ kind = "execution" /\ qpc = "page"
  /\ Rest # {}
  /\ UNCHANGED vars

MorePages ==
  /\ kind = "execution" /\ qpc = "page"
  /\ Collect(Page)
  /\ nextKey' \in Rest /\ \A u \in Rest : nextKey' <= u
  /\ UNCHANGED <<kind, time, skew, chainVars, qpc, kept, result, grantVars, checkVars, used>>

LastPage ==
  /\ kind = "execution" /\ qpc = "page"
  /\ Rest = {}
  /\ Collect(Page)
  /\ qpc' = "filter"
  /\ UNCHANGED <<kind, time, skew, chainVars, nextKey, kept, result, grantVars, checkVars, used>>

\* The commitment query names a message type, so its only page has one grant.
OnlyGrant ==
  /\ kind = "commitment" /\ qpc = "page"
  /\ Commit \in Held
  /\ Collect({Commit})
  /\ qpc' = "filter"
  /\ asked' = promised
  /\ lost' = FALSE
  /\ UNCHANGED <<kind, time, skew, chainVars, nextKey, kept, result, grantVars, foundAt, used>>

Return(r) == qpc' = "done" /\ result' = r

\* "authorization not found" is no error of the commitment query.
NotFound ==
  /\ kind = "commitment" /\ qpc = "page"
  /\ Commit \notin Held
  /\ Return("ok")
  /\ asked' = promised
  /\ lost' = FALSE
  /\ UNCHANGED <<kind, time, skew, chainVars, nextKey, listed, kept, grantVars, foundAt, used>>

QueryFails ==
  /\ qpc = "page"
  /\ Return("err")
  /\ UNCHANGED <<kind, time, skew, chainVars, nextKey, listed, kept, grantVars, checkVars, used>>

\* Mutant of StillValid: the comparison is the wrong way round at the boundary.
StillValidStrictly(g) == g.exp > Clock

\* Mutant of StillValid: grants are not filtered.
StillValidAlways(g) == TRUE

\* !g.Expiration.Before(now)
StillValid(g) == g.exp >= Clock

\* time.Now and the loop over the grants.  The execution query also unpacks the
\* authorization (external; it skips what it cannot unpack) and keeps the
\* entries for this contract.
Filter ==
  /\ qpc = "filter"
  /\ \E unpacked \in SUBSET Urls :
       /\ kind = "commitment" => unpacked = Urls
       /\ kept' = {g \in ToSet(listed) :
                     /\ StillValid(g)
                     /\ g.url \in unpacked
                     /\ kind = "execution" => g.url \in Ours}
  /\ Return("ok")
  /\ foundAt' = time
  /\ UNCHANGED <<kind, time, skew, chainVars, nextKey, listed, grantVars, asked, lost, used>>

Answered == MorePages \/ LastPage \/ OnlyGrant \/ NotFound \/ Filter

Query == Answered \/ QueryFails

--------------------------------------------------------------------------------
(* GrantContractCommitFunds: build the message, then BroadcastMsgs.        *)

\* NewGrant refuses an expiration that is not after the client's clock.
BuildGrant(e) ==
  /\ kind = "commitment" /\ gpc = "idle"
  /\ e > Clock
  /\ want' = e
  /\ pending' = pending \cup {e}
  /\ gpc' = "sent"
  /\ UNCHANGED <<kind, time, skew, chainVars, queryVars, promised, checkVars, used>>

\* A block takes the grant; the chain has its own check against block time.  The
\* caller is answered, unless it has given up before.
Deliver(e) ==
  /\ e \in pending /\ e > time
  /\ pending' = pending \ {e}
  /\ expires' = [expires EXCEPT ![Commit] = e]
  /\ Track
  /\ lost' = TRUE
  /\ IF gpc = "sent" THEN gpc' = "ok" /\ promised' = e ELSE promised' = 0 /\ UNCHANGED gpc
  /\ UNCHANGED <<kind, time, skew, queryVars, want, asked, foundAt, used>>

\* The expiration has passed on the way: a non-zero code.
GrantFails(e) ==
  /\ e \in pending /\ e <= time
  /\ pending' = pending \ {e}
  /\ gpc' = IF gpc = "sent" THEN "err" ELSE gpc
  /\ UNCHANGED <<kind, time, skew, chainVars, queryVars, want, promised, checkVars, used>>

\* BroadcastMsgs gives up: the transaction is lost, or comes later.
GiveUp ==
  /\ gpc = "sent"
  /\ gpc' = "err"
  /\ pending' \in {pending, {}}
  /\ UNCHANGED <<kind, time, skew, chainVars, queryVars, want, promised, checkVars, used>>

Granting ==
  \/ \E e \in Expirations : BuildGrant(e) \/ Deliver(e) \/ GrantFails(e)
  \/ GiveUp

Chain ==
  \/ Tick \/ Use
  \/ \E u \in Urls : Prune(u) \/ \E e \in {0, MaxTime, Never} : Change(u, e)

Next == Query \/ Granting \/ Chain

\* The caller runs and its requests are answered.
Spec == Init /\ [][Next]_vars /\ WF_vars(Answered)

--------------------------------------------------------------------------------
\* The type invariant.
TypeOK ==
  /\ kind \in Kinds
  /\ time \in 0..MaxTime /\ skew \in Skews
  /\ expires \in [Urls -> Expirations \cup {0}]
  /\ stable \in SUBSET Held
  /\ ever \in SUBSET [url : Urls, exp : Expirations]
  /\ qpc \in {"page", "filter", "done"} /\ nextKey \in Urls \cup {0}
  /\ listed \in Seq(ever) /\ kept \in SUBSET ever
  /\ result \in {"none", "ok", "err"} /\ (result = "none" <=> qpc # "done")
  /\ gpc \in {"idle", "sent", "ok", "err"} /\ want \in Expirations \cup {0}
  /\ pending \in SUBSET Expirations
  /\ promised \in Expirations \cup {0} /\ asked \in Expirations \cup {0}
  /\ lost \in BOOLEAN /\ foundAt \in 0..MaxTime /\ used \in {"no", "accepted", "rejected"}

\* Who was granted the right, and was told so, is found by a query that is made
\* afterwards: as long as nobody replaced or revoked the grant and it has expired
\* neither on chain nor on the client's clock (GrantContractCommitFunds, then
\* HasContractCommitmentGrant).
GrantThenHas ==
  result = "ok" /\ asked # 0 /\ promised = asked /\ time < asked /\ Clock <= asked
    => kept # {}

\* A grant that was found is accepted when it is used, unless it was replaced or
\* revoked after the chain answered, or expired on chain; and the latter happened
\* after the query had returned, unless the client's clock is behind the chain's
\* (HasContractCommitmentGrant and the use its answer is for).
FoundIsUsable ==
  used = "rejected" =>
    \/ lost
    \/ \A g \in kept : g.exp <= time /\ (skew >= 0 => foundAt <= g.exp)

\* The message types that the query asks for.
AskedFor == IF kind = "commitment" THEN {Commit} ELSE Urls

ListedUrls == [i \in DOMAIN listed |-> listed[i].url]
Outcome == CASE result = "ok" -> "complete" [] result = "err" -> "failed" [] OTHER -> "none"

Abstract == INSTANCE Listing WITH
  Keys <- Urls, MayTruncate <- FALSE,
  present <- Held \cap AskedFor, stable <- stable \cap AskedFor,
  ever <- {g.url : g \in ever} \cap AskedFor,
  listed <- ListedUrls, outcome <- Outcome

\* Both queries implement a listing of the types they ask for: no grant comes
\* twice or out of order, none is made up, and none that was there all the time
\* is missing, although grants are given, replaced, revoked and pruned between
\* two page requests (allGrants and the loops over its result).
ImplementsListing == Abstract!Spec

\* Where a query is in the order of the node: what it collected was granted and
\* is below the next page, and no type granted ever since is left behind.
Paging ==
  /\ \A u \in Held : Grant(u) \in ever
  /\ \A i, j \in 1..Len(listed) : i < j => listed[i].url < listed[j].url
  /\ \A i \in 1..Len(listed) : /\ listed[i].url \in AskedFor
                               /\ qpc = "page" => listed[i].url < nextKey
  /\ kind = "commitment" => nextKey = 0
  /\ result # "err" => \A u \in stable \cap AskedFor :
       \/ qpc = "page" /\ nextKey <= u
       \/ \E i \in 1..Len(listed) : listed[i].url = u

\* The chain has the grant that expires at e, or pruned it after it expired.
OnChain(e) == expires[Commit] = e \/ (expires[Commit] = 0 /\ e <= time)

\* What was promised is on chain; what the commitment query collected and kept is,
\* unless it was replaced or revoked since the chain answered.
Checked ==
  /\ promised # 0 => OnChain(promised)
  /\ asked # 0 => kind = "commitment" /\ qpc # "page"
  /\ qpc # "done" => kept = {}
  /\ kept = {} => used = "no"
  /\ foundAt <= time
  /\ kind = "commitment" =>
       /\ qpc = "filter" =>
            \E g \in ever : /\ listed = <<g>>
                            /\ asked # 0 => g.exp = asked
                            /\ ~lost => OnChain(g.exp)
       /\ result = "ok" /\ asked # 0 => kept # {} \/ asked <= time \/ asked < Clock
       /\ \A g \in kept : foundAt + skew <= g.exp /\ (~lost => OnChain(g.exp))

\* The inductive invariant behind GrantThenHas, FoundIsUsable and the listing.
GrantInv == TypeOK /\ Paging /\ Checked /\ FoundIsUsable

\* The query returns: its pages come to an end, and no answer is asked for twice.
QueryEnds == <>(qpc = "done")
================================================================================
