------------------------------ MODULE GrantsProofs ------------------------------
(***************************************************************************)
(* Proofs about the authz grants, for any message types, page size, times   *)
(* and clocks: what is granted is found afterwards, what is found can be    *)
(* used, and both queries implement the abstract listing.                   *)
(***************************************************************************)
EXTENDS Grants, FiniteSetTheorems, SequenceTheorems, TLAPS

LEMMA LaterOnTheClock ==
  ASSUME NEW x \in Int, NEW s \in Int, NEW t \in Int, NEW u \in Int, t <= u
  PROVE  x < t + s => x < u + s
OBVIOUS

USE GrantAssumption

--------------------------------------------------------------------------------
(* Pages.                                                                  *)

\* What an answer of the node adds to the grants collected.
LEMMA CollectIs ==
  ASSUME TypeOK, \A u \in Held : Grant(u) \in ever,
         NEW urls \in SUBSET Held, Collect(urls)
  PROVE  \E m \in Nat : \E s \in [1..m -> urls] :
           /\ {s[i] : i \in 1..m} = urls
           /\ \A i, j \in 1..m : i < j => s[i] < s[j]
           /\ Len(listed) \in Nat
           /\ listed' \in Seq(ever) /\ Len(listed') = Len(listed) + m
           /\ \A i \in 1..Len(listed) : listed'[i] = listed[i]
           /\ \A i \in 1..m : listed'[Len(listed) + i] = Grant(s[i])
<1>1. urls \subseteq Urls /\ IsFiniteSet(urls)
  BY FS_Subset DEF Held
<1>2. PICK m \in Nat : m = Cardinality(urls)
  BY <1>1, FS_CardinalityType
<1>3. PICK s \in [1..m -> urls] :
        /\ ToSet(s) = urls
        /\ \A i, j \in DOMAIN s : i < j => s[i] < s[j]
        /\ listed' = listed \o [i \in DOMAIN s |-> Grant(s[i])]
  BY <1>2 DEF Collect, Listings
<1>4. DOMAIN s = 1..m /\ {s[i] : i \in 1..m} = urls
  BY <1>3 DEF ToSet
<1> DEFINE g == [i \in 1..m |-> Grant(s[i])]
<1>5. g \in Seq(ever) /\ Len(g) = m /\ \A i \in 1..m : g[i] = Grant(s[i])
  <2>1. \A i \in 1..m : Grant(s[i]) \in ever
    OBVIOUS
  <2> QED
    BY <2>1
<1>6. listed' = listed \o g /\ listed \in Seq(ever) /\ Len(listed) \in Nat
  BY <1>3, <1>4 DEF TypeOK
<1> HIDE DEF g
<1>7. /\ listed \o g \in Seq(ever)
      /\ Len(listed \o g) = Len(listed) + Len(g)
      /\ \A i \in 1..Len(listed) + Len(g) :
           (listed \o g)[i] = IF i <= Len(listed) THEN listed[i] ELSE g[i - Len(listed)]
  BY <1>5, <1>6, ConcatProperties
<1>8. \A i \in 1..Len(listed) : listed'[i] = listed[i]
  BY <1>5, <1>6, <1>7
<1>9. \A i \in 1..m : listed'[Len(listed) + i] = Grant(s[i])
  <2> SUFFICES ASSUME NEW i \in 1..m PROVE listed'[Len(listed) + i] = Grant(s[i])
    OBVIOUS
  <2>1. /\ Len(listed) + i \in 1..Len(listed) + m /\ ~(Len(listed) + i <= Len(listed))
        /\ Len(listed) + i - Len(listed) = i
    BY <1>6
  <2> QED
    BY <1>5, <1>6, <1>7, <2>1
<1>10. listed' \in Seq(ever) /\ Len(listed') = Len(listed) + m
  BY <1>5, <1>6, <1>7
<1>11. \A i, j \in 1..m : i < j => s[i] < s[j]
  BY <1>3, <1>4
<1> WITNESS m \in Nat
<1> WITNESS s \in [1..m -> urls]
<1> QED
  BY <1>4, <1>6, <1>8, <1>9, <1>10, <1>11

\* The first PageSize matching types come before the others.
LEMMA PageBelowRest ==
  ASSUME NEW u \in Page, NEW r \in Rest
  PROVE  u < r
<1>1. /\ Held \subseteq Nat /\ IsFiniteSet(Held) /\ u \in Matching /\ r \in Matching
      /\ Matching \subseteq Held /\ u \in Nat /\ r \in Nat
  BY FS_Subset DEF Held, Matching, Page, Rest
<1> DEFINE Before(x) == {v \in Matching : v < x}
<1>0. u # r
  BY DEF Rest
<1>2. ASSUME r < u PROVE FALSE
  <2>1. Before(r) \subseteq Before(u) /\ IsFiniteSet(Before(u))
    <3>0. \A v \in Matching : v < r => v < u
      <4>1. \A v \in Matching : v \in Nat
        BY <1>1
      <4> QED
        BY <1>1, <1>2, <4>1
    <3>1. Before(r) \subseteq Before(u)
      BY <3>0
    <3>2. IsFiniteSet(Before(u))
      BY <1>1, FS_Subset
    <3> QED
      BY <3>1, <3>2
  <2>2. Cardinality(Before(r)) <= Cardinality(Before(u)) /\ IsFiniteSet(Before(r))
    BY <2>1, FS_Subset
  <2>3. Cardinality(Before(r)) \in Nat /\ Cardinality(Before(u)) \in Nat
    BY <2>1, <2>2, FS_CardinalityType
  <2>4. Cardinality(Before(u)) < PageSize /\ ~(Cardinality(Before(r)) < PageSize)
    BY <1>1 DEF Page, Rest
  <2> QED
    BY <2>2, <2>3, <2>4
<1> QED
  BY <1>0, <1>1, <1>2

--------------------------------------------------------------------------------
(* The inductive invariant, along the steps of the query.                  *)

\* A page adds grants that are above those collected, and leaves none out.
LEMMA PageCollected ==
  ASSUME TypeOK, Paging, kind = "execution", qpc = "page", Collect(Page),
         UNCHANGED <<kind, time, skew, chainVars>>
  PROVE  /\ listed' \in Seq(ever') /\ Len(listed') \in Nat
         /\ \A i, j \in 1..Len(listed') : i < j => listed'[i].url < listed'[j].url
         /\ \A i \in 1..Len(listed') :
              /\ listed'[i].url \in AskedFor'
              /\ listed'[i].url < nextKey \/ listed'[i].url \in Page
         /\ result # "err" =>
              \A u \in stable \cap AskedFor :
                u \in Rest \/ \E i \in 1..Len(listed') : listed'[i].url = u
<1>0. PICK m \in Nat : \E s \in [1..m -> Page] :
        /\ {s[i] : i \in 1..m} = Page
        /\ \A i, j \in 1..m : i < j => s[i] < s[j]
        /\ Len(listed) \in Nat
        /\ listed' \in Seq(ever) /\ Len(listed') = Len(listed) + m
        /\ \A i \in 1..Len(listed) : listed'[i] = listed[i]
        /\ \A i \in 1..m : listed'[Len(listed) + i] = Grant(s[i])
  <2>1. Page \in SUBSET Held
    BY DEF Page, Matching
  <2> QED
    BY <2>1, CollectIs DEF Paging
<1>1. PICK s \in [1..m -> Page] :
        /\ {s[i] : i \in 1..m} = Page
        /\ \A i, j \in 1..m : i < j => s[i] < s[j]
        /\ Len(listed) \in Nat
        /\ listed' \in Seq(ever) /\ Len(listed') = Len(listed) + m
        /\ \A i \in 1..Len(listed) : listed'[i] = listed[i]
        /\ \A i \in 1..m : listed'[Len(listed) + i] = Grant(s[i])
  BY <1>0
<1>2. ever' = ever /\ AskedFor' = Urls /\ AskedFor = Urls
  BY DEF chainVars, AskedFor
<1>3. \A i \in 1..m : listed'[Len(listed) + i].url = s[i]
  <2>1. \A u : Grant(u).url = u
    BY DEF Grant
  <2> QED
    BY <1>1, <2>1
<1>4. \A u \in Page : u \in Urls /\ nextKey <= u /\ u \in Nat
  BY DEF Page, Matching, Held
<1>5. \A i \in 1..Len(listed) : listed[i].url < nextKey /\ listed[i].url \in Urls
  BY <1>2 DEF Paging
<1>6. \A i \in 1..Len(listed') :
        i \in 1..Len(listed) \/ (i - Len(listed) \in 1..m /\ i = Len(listed) + (i - Len(listed)))
  BY <1>1
<1>7. \A i \in 1..Len(listed') : \/ i \in 1..Len(listed) /\ listed'[i].url = listed[i].url
                                 \/ /\ i - Len(listed) \in 1..m
                                    /\ listed'[i].url = s[i - Len(listed)]
  BY <1>1, <1>3, <1>6
<1>8. \A i \in 1..Len(listed') : /\ listed'[i].url \in Urls
                                 /\ listed'[i].url < nextKey \/ listed'[i].url \in Page
  <2>1. \A i \in 1..m : s[i] \in Page
    OBVIOUS
  <2> QED
    BY <1>4, <1>5, <1>7, <2>1
<1>9. ASSUME NEW i \in 1..Len(listed'), NEW j \in 1..Len(listed'), i < j
      PROVE  listed'[i].url < listed'[j].url
  <2>1. CASE i \in 1..Len(listed) /\ j \in 1..Len(listed)
    BY <1>1, <1>9, <2>1 DEF Paging
  <2>2. CASE i \in 1..Len(listed) /\ j \notin 1..Len(listed)
    <3>1. listed'[i].url < nextKey /\ listed'[i].url \in Nat
      BY <1>1, <1>5, <2>2
    <3>2. listed'[j].url \in Page
      BY <1>7, <2>2
    <3>3. nextKey <= listed'[j].url /\ listed'[j].url \in Nat /\ nextKey \in Nat
      BY <1>4, <3>2 DEF TypeOK
    <3> QED
      BY <3>1, <3>3
  <2>3. CASE i \notin 1..Len(listed)
    <3>1. i - Len(listed) \in 1..m /\ listed'[i].url = s[i - Len(listed)]
      BY <1>7, <2>3
    <3>2. j \notin 1..Len(listed)
      BY <1>1, <1>9, <2>3
    <3>3. j - Len(listed) \in 1..m /\ listed'[j].url = s[j - Len(listed)]
      BY <1>7, <3>2
    <3>4. i - Len(listed) < j - Len(listed)
      BY <1>1, <1>9
    <3> QED
      BY <1>1, <3>1, <3>3, <3>4
  <2> QED
    BY <2>1, <2>2, <2>3
<1>10. ASSUME result # "err", NEW u \in stable \cap AskedFor
       PROVE  u \in Rest \/ \E i \in 1..Len(listed') : listed'[i].url = u
  <2>1. CASE nextKey <= u
    <3>1. u \in Matching
      BY <2>1 DEF Matching, TypeOK
    <3>2. CASE u \in Page
      <4>1. PICK i \in 1..m : s[i] = u
        BY <1>1, <3>2
      <4>2. Len(listed) + i \in 1..Len(listed')
        BY <1>1
      <4> QED
        BY <1>3, <4>1, <4>2
    <3> QED
      BY <3>1, <3>2 DEF Rest
  <2>2. CASE \E i \in 1..Len(listed) : listed[i].url = u
    <3>1. PICK i \in 1..Len(listed) : listed[i].url = u
      BY <2>2
    <3>2. i \in 1..Len(listed') /\ listed'[i] = listed[i]
      BY <1>1
    <3> QED
      BY <3>1, <3>2
  <2> QED
    BY <1>10, <2>1, <2>2 DEF Paging
<1> QED
  BY <1>1, <1>2, <1>8, <1>9, <1>10

--------------------------------------------------------------------------------
(* The inductive invariant, along the steps of the chain.                  *)

LEMMA SeqGrows ==
  ASSUME NEW S, NEW T, S \subseteq T, NEW s \in Seq(S)
  PROVE  s \in Seq(T)
<1>1. Len(s) \in Nat /\ s \in [1..Len(s) -> S]
  BY LenProperties
<1> QED
  BY <1>1

\* What becomes of the grants leaves the histories true.
LEMMA TrackType ==
  ASSUME TypeOK, \A u \in Held : Grant(u) \in ever,
         expires' \in [Urls -> Expirations \cup {0}], Track \/ UNCHANGED chainVars
  PROVE  /\ ever \subseteq ever' /\ ever' \in SUBSET [url : Urls, exp : Expirations]
         /\ stable' = stable \cap Held'
         /\ (\A u \in Held : Grant(u) \in ever)'
         /\ ever' \subseteq ever \cup {Grant(u)' : u \in Held'}
         /\ {g.url : g \in ever'} = {g.url : g \in ever} \cup Held'
<1>1. /\ Held' = {u \in Urls : expires'[u] # 0}
      /\ \A u : Grant(u)' = [url |-> u, exp |-> expires'[u]]
  BY DEF Held, Grant
<1>2. CASE Track
  <2>1. ever' = ever \cup {Grant(u)' : u \in Held'}
    BY <1>1, <1>2 DEF Track
  <2>2. stable' = stable \cap Held'
    BY <1>1, <1>2 DEF Track, TypeOK, Held
  <2>3. \A u \in Held' : Grant(u)' \in [url : Urls, exp : Expirations] /\ Grant(u)'.url = u
    BY <1>1
  <2>4. ever' \in SUBSET [url : Urls, exp : Expirations]
    BY <2>1, <2>3 DEF TypeOK
  <2>5. {g.url : g \in ever'} = {g.url : g \in ever} \cup Held'
    BY <2>1, <2>3
  <2> QED
    BY <2>1, <2>2, <2>4, <2>5
<1>3. CASE UNCHANGED chainVars
  <2>1. expires' = expires /\ stable' = stable /\ ever' = ever /\ Held' = Held
    BY <1>3 DEF chainVars, Held
  <2>2. \A u : Grant(u)' = Grant(u) /\ Grant(u).url = u
    BY <2>1 DEF Grant
  <2>3. Held' \subseteq {g.url : g \in ever}
    BY <2>1, <2>2
  <2> QED
    BY <2>1, <2>2, <2>3 DEF TypeOK
<1> QED
  BY <1>2, <1>3

\* The query does not move.
LEMMA PagingKept ==
  ASSUME TypeOK, Paging, UNCHANGED <<kind, queryVars>>,
         expires' \in [Urls -> Expirations \cup {0}], Track \/ UNCHANGED chainVars
  PROVE  Paging'
<1>1. (\A u \in Held : Grant(u) \in ever)' /\ stable' \subseteq stable
  BY TrackType DEF Paging
<1>2. UNCHANGED <<kind, qpc, nextKey, listed, kept, result>> /\ AskedFor' = AskedFor
  BY DEF queryVars, AskedFor
<1> QED
  BY <1>1, <1>2 DEF Paging

LEMMA CheckedKept ==
  ASSUME TypeOK, Checked, FoundIsUsable,
         UNCHANGED <<kind, skew, queryVars, asked, foundAt>>,
         ever \subseteq ever', time' \in 0..MaxTime, time <= time', lost => lost',
         used' = used, promised' # 0 => OnChain(promised)',
         \A e \in Expirations : ~lost' /\ OnChain(e) => OnChain(e)'
  PROVE  Checked' /\ FoundIsUsable'
<1>1. /\ UNCHANGED <<kind, skew, qpc, nextKey, listed, kept, result, asked, foundAt>>
      /\ skew \in Int /\ time \in Int /\ time' \in Int /\ foundAt \in Int /\ asked \in Int
      /\ time <= time'
      /\ \A g \in kept : g.exp \in Expirations /\ g.exp \in Int
      /\ \A g \in ever : g.exp \in Expirations
  BY DEF queryVars, TypeOK, Expirations
<1>2. foundAt' <= time'
  BY <1>1 DEF Checked
<1>3. kind = "commitment" /\ qpc = "filter" =>
        \E g \in ever' : /\ listed = <<g>>
                         /\ asked # 0 => g.exp = asked
                         /\ ~lost' => OnChain(g.exp)'
  <2> SUFFICES ASSUME kind = "commitment", qpc = "filter"
               PROVE  \E g \in ever' : /\ listed = <<g>>
                                       /\ asked # 0 => g.exp = asked
                                       /\ ~lost' => OnChain(g.exp)'
    OBVIOUS
  <2>1. PICK g \in ever : /\ listed = <<g>>
                          /\ asked # 0 => g.exp = asked
                          /\ ~lost => OnChain(g.exp)
    BY DEF Checked
  <2>2. ~lost' => OnChain(g.exp)'
    BY <1>1, <2>1
  <2> QED
    BY <2>1, <2>2
<1>4. kind = "commitment" =>
        /\ result = "ok" /\ asked # 0 => kept # {} \/ asked <= time' \/ asked < Clock'
        /\ \A g \in kept : foundAt + skew <= g.exp /\ (~lost' => OnChain(g.exp)')
  <2> SUFFICES ASSUME kind = "commitment"
               PROVE  /\ result = "ok" /\ asked # 0 => kept # {} \/ asked <= time' \/ asked < Clock'
                      /\ \A g \in kept : foundAt + skew <= g.exp /\ (~lost' => OnChain(g.exp)')
    OBVIOUS
  <2>1. result = "ok" /\ asked # 0 => kept # {} \/ asked <= time \/ asked < time + skew
    BY DEF Checked, Clock
  <2>2. Clock' = time' + skew
    BY <1>1 DEF Clock
  <2>3. \A g \in kept : foundAt + skew <= g.exp /\ (~lost => OnChain(g.exp))
    BY DEF Checked
  <2>4. result = "ok" /\ asked # 0 => kept # {} \/ asked <= time' \/ asked < time' + skew
    <3>1. asked <= time => asked <= time'
      BY <1>1
    <3>2. asked < time + skew => asked < time' + skew
      <4>1. /\ asked \in Int /\ skew \in Int /\ time \in Int /\ time' \in Int
            /\ time <= time'
        BY <1>1
      <4> QED
        BY <4>1, LaterOnTheClock
    <3> QED
      BY <2>1, <3>1, <3>2
  <2> QED
    BY <1>1, <2>2, <2>3, <2>4
<1>5. Checked'
  BY <1>1, <1>2, <1>3, <1>4 DEF Checked
<1>6. FoundIsUsable'
  BY <1>1 DEF FoundIsUsable
<1> QED
  BY <1>5, <1>6

LEMMA TickStep == ASSUME GrantInv, Tick PROVE GrantInv'
<1>1. /\ TypeOK /\ Paging /\ Checked /\ FoundIsUsable
      /\ time < MaxTime /\ time' = time + 1
      /\ UNCHANGED <<kind, skew, chainVars, queryVars, grantVars, checkVars, used>>
  BY DEF GrantInv, Tick
<1>2. time \in 0..MaxTime /\ time' \in 0..MaxTime /\ time <= time'
  BY <1>1 DEF TypeOK
<1>3. TypeOK'
  BY <1>1, <1>2 DEF TypeOK, Held, chainVars, queryVars, grantVars, checkVars
<1>4. Paging'
  BY <1>1, PagingKept DEF TypeOK, chainVars
<1>5. /\ ever' = ever /\ expires' = expires /\ promised' = promised /\ asked' = asked
      /\ lost' = lost /\ foundAt' = foundAt /\ used' = used
  BY <1>1 DEF chainVars, grantVars, checkVars
<1>6. \A e \in Expirations \cup {0} : OnChain(e) => OnChain(e)'
  <2>1. \A e \in Expirations \cup {0} : e \in Int
    BY DEF Expirations
  <2> QED
    BY <1>1, <1>2, <1>5, <2>1 DEF OnChain
<1>7. promised' # 0 => OnChain(promised)'
  <2>1. promised # 0 => OnChain(promised)
    BY <1>1 DEF Checked
  <2>2. promised \in Expirations \cup {0}
    BY <1>1 DEF TypeOK
  <2> QED
    BY <1>5, <1>6, <2>1, <2>2
<1>8. Checked' /\ FoundIsUsable'
  BY <1>1, <1>2, <1>5, <1>6, <1>7, CheckedKept
<1> QED
  BY <1>3, <1>4, <1>8 DEF GrantInv

LEMMA PromiseKept ==
  ASSUME TypeOK, Checked, UNCHANGED promised,
         \A e \in Expirations : OnChain(e) => OnChain(e)'
  PROVE  promised' # 0 => OnChain(promised)'
<1>1. promised # 0 => OnChain(promised) /\ promised \in Expirations
  BY DEF Checked, TypeOK
<1> QED
  BY <1>1 DEF OnChain

\* Steps that leave the chain's grants alone, and the query.
LEMMA QuietStep ==
  ASSUME GrantInv, UNCHANGED <<kind, time, skew, chainVars, queryVars, asked, foundAt>>,
         lost => lost', used' = used,
         gpc' \in {"idle", "sent", "ok", "err"}, want' \in Expirations \cup {0},
         pending' \in SUBSET Expirations, promised' = promised, lost' \in BOOLEAN
  PROVE  GrantInv'
<1>1. TypeOK /\ Paging /\ Checked /\ FoundIsUsable
  BY DEF GrantInv
<1>2. TypeOK'
  BY <1>1 DEF TypeOK, Held, chainVars, queryVars
<1>3. Paging'
  BY <1>1, PagingKept DEF TypeOK, chainVars
<1>4. \A e \in Expirations : OnChain(e) => OnChain(e)'
  BY DEF OnChain, chainVars
<1>5. promised' # 0 => OnChain(promised)'
  BY <1>1, <1>4, PromiseKept
<1>6. ever' = ever /\ time' \in 0..MaxTime /\ time <= time'
  BY <1>1 DEF chainVars, TypeOK
<1>7. Checked' /\ FoundIsUsable'
  BY <1>1, <1>4, <1>5, <1>6, CheckedKept
<1> QED
  BY <1>2, <1>3, <1>7 DEF GrantInv

\* Steps that give a type a new expiration, or none.
LEMMA GrantsMove ==
  ASSUME GrantInv, UNCHANGED <<kind, time, skew, queryVars, asked, foundAt, used, want>>,
         Track, expires' \in [Urls -> Expirations \cup {0}],
         lost => lost', lost' \in BOOLEAN, gpc' \in {"idle", "sent", "ok", "err"},
         pending' \in SUBSET Expirations, promised' \in Expirations \cup {0},
         promised' # 0 => OnChain(promised)',
         \A e \in Expirations : ~lost' /\ OnChain(e) => OnChain(e)'
  PROVE  GrantInv'
<1>1. TypeOK /\ Paging /\ Checked /\ FoundIsUsable
  BY DEF GrantInv
<1>2. /\ ever \subseteq ever' /\ ever' \in SUBSET [url : Urls, exp : Expirations]
      /\ stable' = stable \cap Held'
  BY <1>1, TrackType DEF Paging
<1>3. UNCHANGED <<qpc, nextKey, listed, kept, result>>
  BY DEF queryVars
<1>4. listed' \in Seq(ever') /\ kept' \in SUBSET ever'
  BY <1>1, <1>2, <1>3, SeqGrows DEF TypeOK
<1>5. TypeOK'
  BY <1>1, <1>2, <1>3, <1>4 DEF TypeOK
<1>6. Paging'
  BY <1>1, PagingKept
<1>7. time' \in 0..MaxTime /\ time <= time'
  BY <1>1 DEF TypeOK
<1>8. Checked' /\ FoundIsUsable'
  BY <1>1, <1>2, <1>7, CheckedKept
<1> QED
  BY <1>5, <1>6, <1>8 DEF GrantInv

LEMMA ChangeInv ==
  ASSUME GrantInv, NEW u \in Urls, NEW e \in {0, MaxTime, Never}, Change(u, e)
  PROVE  GrantInv'
<1>1. /\ TypeOK /\ Checked
      /\ expires' = [expires EXCEPT ![u] = e] /\ Track
      /\ promised' = IF u = Commit THEN 0 ELSE promised
      /\ lost' = (lost \/ u = Commit)
      /\ UNCHANGED <<kind, time, skew, queryVars, gpc, want, pending, asked, foundAt, used>>
      /\ e = 0 \/ e > time
  BY DEF GrantInv, Change
<1>2. e \in Expirations \cup {0}
  BY <1>1 DEF TypeOK, Expirations
<1>3. expires' \in [Urls -> Expirations \cup {0}]
  BY <1>1, <1>2 DEF TypeOK
<1>4. u # Commit => expires'[Commit] = expires[Commit]
  BY <1>1 DEF TypeOK
<1>5. u # Commit => \A x \in Expirations : OnChain(x) => OnChain(x)'
  BY <1>1, <1>4 DEF OnChain
<1>6. promised' # 0 => OnChain(promised)'
  BY <1>1, <1>5, PromiseKept
<1>7. /\ gpc' \in {"idle", "sent", "ok", "err"} /\ pending' \in SUBSET Expirations
      /\ promised' \in Expirations \cup {0} /\ lost' \in BOOLEAN
  BY <1>1 DEF TypeOK
<1> QED
  BY <1>1, <1>3, <1>5, <1>6, <1>7, GrantsMove

LEMMA PruneInv ==
  ASSUME GrantInv, NEW u \in Urls, Prune(u)
  PROVE  GrantInv'
<1>1. /\ TypeOK /\ Checked
      /\ expires[u] \in 1..time /\ expires' = [expires EXCEPT ![u] = 0] /\ Track
      /\ UNCHANGED <<kind, time, skew, queryVars, gpc, want, pending, promised, asked, lost,
                     foundAt, used>>
  BY DEF GrantInv, Prune, grantVars, checkVars
<1>2. expires' \in [Urls -> Expirations \cup {0}]
  BY <1>1 DEF TypeOK
<1>3. expires'[Commit] = IF u = Commit THEN 0 ELSE expires[Commit]
  BY <1>1 DEF TypeOK
<1>4. \A x \in Expirations : OnChain(x) => OnChain(x)'
  BY <1>1, <1>3 DEF OnChain
<1>5. promised' # 0 => OnChain(promised)'
  BY <1>1, <1>4, PromiseKept
<1>6. /\ gpc' \in {"idle", "sent", "ok", "err"} /\ pending' \in SUBSET Expirations
      /\ promised' \in Expirations \cup {0} /\ lost' \in BOOLEAN /\ (lost => lost')
  BY <1>1 DEF TypeOK
<1> QED
  BY <1>1, <1>2, <1>4, <1>5, <1>6, GrantsMove

LEMMA DeliverInv ==
  ASSUME GrantInv, NEW e \in Expirations, Deliver(e)
  PROVE  GrantInv'
<1>1. /\ TypeOK /\ Checked /\ pending' = pending \ {e}
      /\ expires' = [expires EXCEPT ![Commit] = e] /\ Track
      /\ lost' = TRUE
      /\ UNCHANGED <<kind, time, skew, queryVars, want, asked, foundAt, used>>
  BY DEF GrantInv, Deliver
<1>2. (gpc' = "ok" /\ promised' = e) \/ (promised' = 0 /\ gpc' = gpc)
  BY DEF Deliver
<1>3. expires' \in [Urls -> Expirations \cup {0}] /\ expires'[Commit] = e
  BY <1>1 DEF TypeOK
<1>4. promised' # 0 => OnChain(promised)'
  BY <1>2, <1>3 DEF OnChain
<1>5. /\ gpc' \in {"idle", "sent", "ok", "err"} /\ pending' \in SUBSET Expirations
      /\ promised' \in Expirations \cup {0} /\ lost' \in BOOLEAN /\ (lost => lost')
  BY <1>1, <1>2 DEF TypeOK
<1> QED
  BY <1>1, <1>3, <1>4, <1>5, GrantsMove

\* The other steps of the granting caller change its own variables only.
LEMMA CallerInv ==
  ASSUME GrantInv,
         \/ \E e \in Expirations : BuildGrant(e) \/ GrantFails(e)
         \/ GiveUp
  PROVE  GrantInv'
<1>1. TypeOK
  BY DEF GrantInv
<1>2. /\ UNCHANGED <<kind, time, skew, chainVars, queryVars, checkVars, promised, used>>
      /\ gpc' \in {"idle", "sent", "ok", "err"} /\ want' \in Expirations \cup {0}
      /\ pending' \in SUBSET Expirations
  <2>1. CASE \E e \in Expirations : BuildGrant(e)
    BY <1>1, <2>1 DEF BuildGrant, TypeOK
  <2>2. CASE \E e \in Expirations : GrantFails(e)
    BY <1>1, <2>2 DEF GrantFails, TypeOK
  <2>3. CASE GiveUp
    BY <1>1, <2>3 DEF GiveUp, TypeOK
  <2> QED
    BY <2>1, <2>2, <2>3
<1>3. lost' \in BOOLEAN /\ lost' = lost /\ UNCHANGED <<asked, foundAt>>
  BY <1>1, <1>2 DEF TypeOK, checkVars
<1> QED
  BY <1>2, <1>3, QuietStep

\* A use that the chain rejects meets a grant that is no longer the one found.
LEMMA UseInv == ASSUME GrantInv, Use PROVE GrantInv'
<1>1. /\ TypeOK /\ Paging /\ Checked /\ FoundIsUsable
      /\ kind = "commitment" /\ kept # {} /\ used' \in {"accepted", "rejected"}
      /\ used' = "rejected" => expires[Commit] = 0 \/ ~(time <= expires[Commit])
      /\ UNCHANGED <<kind, time, skew, chainVars, queryVars, grantVars, checkVars>>
  BY DEF GrantInv, Use
<1>2. /\ UNCHANGED <<kind, time, skew, expires, stable, ever, qpc, nextKey, listed, kept, result,
                     gpc, want, pending, promised, asked, lost, foundAt>>
  BY <1>1 DEF chainVars, queryVars, grantVars, checkVars
<1>3. TypeOK'
  <2>1. Held' = Held
    BY <1>2 DEF Held
  <2>2. TypeOK /\ used' \in {"accepted", "rejected"}
    BY <1>1
  <2> QED
    BY <1>2, <2>1, <2>2 DEF TypeOK
<1>4. Paging'
  BY <1>1, PagingKept DEF TypeOK, chainVars
<1>5. Checked'
  BY <1>1, <1>2 DEF Checked, OnChain, Clock
<1>6. FoundIsUsable'
  <2> SUFFICES ASSUME used' = "rejected", ~lost, NEW g \in kept
               PROVE  g.exp <= time /\ (skew >= 0 => foundAt <= g.exp)
    BY <1>2 DEF FoundIsUsable
  <2>1. foundAt + skew <= g.exp /\ OnChain(g.exp)
    BY <1>1 DEF Checked
  <2>2. /\ g.exp \in Expirations /\ g.exp \in Nat /\ time \in Nat /\ skew \in Int
        /\ foundAt \in Nat
    BY <1>1 DEF TypeOK, Expirations
  <2>3. g.exp <= time
    BY <1>1, <2>1, <2>2 DEF OnChain
  <2>4. skew >= 0 => foundAt <= g.exp
    BY <2>1, <2>2
  <2> QED
    BY <2>3, <2>4
<1> QED
  BY <1>3, <1>4, <1>5, <1>6 DEF GrantInv

--------------------------------------------------------------------------------
(* The inductive invariant, along the answers to the query.                *)

\* A page request of the execution query is answered; the next one, if there is
\* one, starts with the first type that is left.
LEMMA PageInv ==
  ASSUME GrantInv, MorePages \/ LastPage
  PROVE  GrantInv'
<1>1. /\ TypeOK /\ Paging /\ Checked /\ FoundIsUsable
      /\ kind = "execution" /\ qpc = "page" /\ Collect(Page)
      /\ UNCHANGED <<kind, time, skew, expires, stable, ever, kept, result, gpc, want, pending,
                     promised, asked, lost, foundAt, used>>
      /\ UNCHANGED chainVars
      /\ \/ /\ qpc' = "page" /\ nextKey' \in Rest /\ \A u \in Rest : nextKey' <= u
         \/ qpc' = "filter" /\ nextKey' = nextKey /\ Rest = {}
  BY DEF GrantInv, MorePages, LastPage, chainVars, grantVars, checkVars
<1>2. /\ listed' \in Seq(ever') /\ Len(listed') \in Nat
      /\ \A i, j \in 1..Len(listed') : i < j => listed'[i].url < listed'[j].url
      /\ \A i \in 1..Len(listed') :
           /\ listed'[i].url \in AskedFor'
           /\ listed'[i].url < nextKey \/ listed'[i].url \in Page
      /\ result # "err" =>
           \A u \in stable \cap AskedFor :
             u \in Rest \/ \E i \in 1..Len(listed') : listed'[i].url = u
  BY <1>1, PageCollected
<1>3. Held' = Held /\ AskedFor' = AskedFor /\ (\A u : Grant(u)' = Grant(u))
  BY <1>1 DEF Held, AskedFor, Grant
<1>4. \A u \in Rest : u \in Urls /\ nextKey <= u /\ u \in Nat /\ nextKey \in Nat
  BY <1>1 DEF Rest, Matching, Held, TypeOK
<1>5. nextKey' \in Urls \cup {0}
  BY <1>1, <1>4 DEF TypeOK
<1>6. TypeOK'
  <2>1. qpc' \in {"page", "filter"} /\ result' = "none"
    BY <1>1 DEF TypeOK
  <2>2. /\ ever' \in SUBSET [url : Urls, exp : Expirations] /\ kept' \in SUBSET ever'
        /\ stable' \in SUBSET Held'
    BY <1>1, <1>3 DEF TypeOK
  <2>3. TypeOK
    BY <1>1
  <2> QED
    BY <1>1, <1>2, <1>5, <2>1, <2>2, <2>3 DEF TypeOK
<1>7. ASSUME NEW i \in 1..Len(listed'), qpc' = "page"
      PROVE  listed'[i].url < nextKey'
  <2>1. nextKey' \in Rest
    BY <1>1, <1>7
  <2>2. CASE listed'[i].url \in Page
    BY <2>1, <2>2, PageBelowRest
  <2>3. CASE listed'[i].url < nextKey
    <3>1. listed'[i].url \in Nat
      BY <1>2 DEF AskedFor
    <3>2. nextKey <= nextKey' /\ nextKey' \in Nat /\ nextKey \in Nat
      BY <1>4, <2>1
    <3> QED
      BY <2>3, <3>1, <3>2
  <2> QED
    BY <1>2, <2>2, <2>3
<1>8. ASSUME result' # "err", NEW u \in stable' \cap AskedFor'
      PROVE  (qpc' = "page" /\ nextKey' <= u) \/ \E i \in 1..Len(listed') : listed'[i].url = u
  <2>1. u \in Rest \/ \E i \in 1..Len(listed') : listed'[i].url = u
    BY <1>1, <1>2, <1>3, <1>8
  <2>2. u \in Rest => qpc' = "page" /\ nextKey' <= u
    BY <1>1
  <2> QED
    BY <2>1, <2>2
<1>9. Paging'
  BY <1>1, <1>2, <1>3, <1>7, <1>8 DEF Paging
<1>10. Checked'
  BY <1>1 DEF Checked, OnChain
<1>11. FoundIsUsable'
  BY <1>1 DEF FoundIsUsable, Checked
<1> QED
  BY <1>6, <1>9, <1>10, <1>11 DEF GrantInv

\* The commitment query has collected nothing before its only answer.
LEMMA NothingYet ==
  ASSUME TypeOK, Paging, kind = "commitment", qpc = "page"
  PROVE  listed = <<>>
<1>1. listed \in Seq(ever) /\ Len(listed) \in Nat
  BY DEF TypeOK
<1>2. nextKey = 0 /\ AskedFor = {Commit} /\ Commit \in Nat
  BY DEF Paging, AskedFor
<1>3. \A i \in 1..Len(listed) : listed[i].url \in Nat /\ listed[i].url < 0
  BY <1>2 DEF Paging
<1>4. Len(listed) = 0
  BY <1>1, <1>3
<1> QED
  BY <1>1, <1>4, EmptySeq

LEMMA OnlyGrantInv ==
  ASSUME GrantInv, OnlyGrant
  PROVE  GrantInv' /\ listed = <<>> /\ listed' = <<Grant(Commit)>> /\ Grant(Commit) \in ever
<1>1. /\ TypeOK /\ Paging /\ Checked /\ FoundIsUsable
      /\ kind = "commitment" /\ qpc = "page" /\ Commit \in Held /\ Collect({Commit})
      /\ qpc' = "filter" /\ asked' = promised /\ lost' = FALSE
      /\ UNCHANGED <<kind, time, skew, expires, stable, ever, nextKey, kept, result, gpc, want,
                     pending, promised, foundAt, used>>
  BY DEF GrantInv, OnlyGrant, chainVars, grantVars
<1>2. listed = <<>> /\ Len(listed) = 0
  BY <1>1, NothingYet
<1>3. Grant(Commit) \in ever
  BY <1>1 DEF Paging
<1>4. listed' = <<Grant(Commit)>>
  <2>0. /\ {Commit} \in SUBSET Held
        /\ \A u \in Held : Grant(u) \in ever
    BY <1>1 DEF Paging
  <2>1. PICK m \in Nat : \E s \in [1..m -> {Commit}] :
          /\ {s[i] : i \in 1..m} = {Commit}
          /\ \A i, j \in 1..m : i < j => s[i] < s[j]
          /\ Len(listed) \in Nat
          /\ listed' \in Seq(ever) /\ Len(listed') = Len(listed) + m
          /\ \A i \in 1..Len(listed) : listed'[i] = listed[i]
          /\ \A i \in 1..m : listed'[Len(listed) + i] = Grant(s[i])
    <3>1. TypeOK /\ Collect({Commit})
      BY <1>1
    <3> QED
      BY <2>0, <3>1, CollectIs
  <2>2. PICK s \in [1..m -> {Commit}] :
          /\ {s[i] : i \in 1..m} = {Commit}
          /\ \A i, j \in 1..m : i < j => s[i] < s[j]
          /\ listed' \in Seq(ever) /\ Len(listed') = Len(listed) + m
          /\ \A i \in 1..m : listed'[Len(listed) + i] = Grant(s[i])
    BY <2>1
  <2>3. \A i \in 1..m : s[i] = Commit
    OBVIOUS
  <2>4. m # 0
    BY <2>2
  <2>5. m = 1
    <3>1. SUFFICES ASSUME m > 1 PROVE FALSE
      BY <2>4
    <3>2. 1 \in 1..m /\ 2 \in 1..m
      BY <3>1
    <3>3. s[1] < s[2] /\ s[1] = Commit /\ s[2] = Commit
      BY <2>2, <2>3, <3>2
    <3> QED
      BY <3>3
  <2>6. Len(listed') = 1 /\ listed'[1] = Grant(Commit) /\ listed' \in Seq(ever)
    BY <1>2, <2>2, <2>3, <2>5
  <2> QED
    BY <2>6
<1>5. Held' = Held /\ AskedFor' = {Commit} /\ (\A u : Grant(u)' = Grant(u)) /\ Grant(Commit).url = Commit
      /\ Grant(Commit).exp = expires[Commit]
  BY <1>1 DEF Held, AskedFor, Grant
<1>6. listed' \in Seq(ever') /\ Len(listed') = 1 /\ listed'[1] = Grant(Commit)
  BY <1>1, <1>3, <1>4
<1>7. TypeOK'
  <2>1. result' = "none" /\ asked' \in Expirations \cup {0} /\ lost' \in BOOLEAN
    BY <1>1 DEF TypeOK
  <2>2. /\ ever' \in SUBSET [url : Urls, exp : Expirations] /\ kept' \in SUBSET ever'
        /\ stable' \in SUBSET Held'
    BY <1>1, <1>5 DEF TypeOK
  <2>3. TypeOK
    BY <1>1
  <2> QED
    BY <1>1, <1>6, <2>1, <2>2, <2>3 DEF TypeOK
<1>8. Paging'
  <2>1. \A i \in 1..Len(listed') : i = 1 /\ listed'[i].url = Commit
    BY <1>5, <1>6
  <2>2. \A u \in stable' \cap AskedFor' : \E i \in 1..Len(listed') : listed'[i].url = u
    BY <1>5, <1>6
  <2>3. (\A u \in Held : Grant(u) \in ever)' /\ (kind = "commitment" => nextKey = 0)'
    BY <1>1, <1>5 DEF Paging
  <2> QED
    BY <1>1, <1>5, <2>1, <2>2, <2>3 DEF Paging
<1>9. Checked'
  <2>1. kept' = {} /\ used' = "no" /\ foundAt' <= time' /\ result' = "none"
    BY <1>1 DEF Checked, TypeOK
  <2>2. promised # 0 => promised = expires[Commit]
    BY <1>1 DEF Checked, OnChain, Held
  <2>3. OnChain(expires[Commit])' /\ (promised' # 0 => OnChain(promised)')
    BY <1>1, <2>2 DEF OnChain
  <2>4. \E g \in ever' : /\ listed' = <<g>>
                         /\ asked' # 0 => g.exp = asked'
                         /\ ~lost' => OnChain(g.exp)'
    BY <1>1, <1>3, <1>4, <1>5, <2>2, <2>3 DEF OnChain
  <2> QED
    BY <1>1, <2>1, <2>3, <2>4 DEF Checked
<1>10. FoundIsUsable'
  BY <1>1 DEF FoundIsUsable, Checked
<1> QED
  BY <1>2, <1>3, <1>4, <1>7, <1>8, <1>9, <1>10 DEF GrantInv

LEMMA NotFoundInv ==
  ASSUME GrantInv, NotFound
  PROVE  GrantInv' /\ stable \cap AskedFor = {}
<1>1. /\ TypeOK /\ Paging /\ Checked /\ FoundIsUsable
      /\ kind = "commitment" /\ qpc = "page" /\ Commit \notin Held
      /\ qpc' = "done" /\ result' = "ok" /\ asked' = promised /\ lost' = FALSE
      /\ UNCHANGED <<kind, time, skew, expires, stable, ever, nextKey, listed, kept, gpc, want,
                     pending, promised, foundAt, used>>
  BY DEF GrantInv, NotFound, Return, chainVars, grantVars
<1>2. Held' = Held /\ AskedFor' = AskedFor /\ AskedFor = {Commit} /\ (\A u : Grant(u)' = Grant(u))
  BY <1>1 DEF Held, AskedFor, Grant
<1>3. stable \cap AskedFor = {}
  BY <1>1, <1>2 DEF TypeOK
<1>4. TypeOK'
  BY <1>1, <1>2 DEF TypeOK
<1>5. Paging'
  BY <1>1, <1>2, <1>3 DEF Paging
<1>6. Checked'
  <2>1. kept' = {} /\ used' = "no" /\ foundAt' <= time'
    BY <1>1 DEF Checked
  <2>2. expires[Commit] = 0 /\ (promised # 0 => promised <= time)
    BY <1>1 DEF Checked, OnChain, Held
  <2>3. promised' # 0 => OnChain(promised)'
    BY <1>1, <2>2 DEF OnChain
  <2> QED
    BY <1>1, <2>1, <2>2, <2>3 DEF Checked
<1>7. FoundIsUsable'
  BY <1>1 DEF FoundIsUsable, Checked
<1> QED
  BY <1>3, <1>4, <1>5, <1>6, <1>7 DEF GrantInv

LEMMA QueryFailsInv == ASSUME GrantInv, QueryFails PROVE GrantInv'
<1>1. /\ TypeOK /\ Paging /\ Checked /\ FoundIsUsable
      /\ qpc = "page" /\ qpc' = "done" /\ result' = "err"
      /\ UNCHANGED <<kind, time, skew, expires, stable, ever, nextKey, listed, kept, gpc, want,
                     pending, promised, asked, lost, foundAt, used>>
  BY DEF GrantInv, QueryFails, Return, chainVars, grantVars, checkVars
<1>2. Held' = Held /\ AskedFor' = AskedFor /\ (\A u : Grant(u)' = Grant(u))
  BY <1>1 DEF Held, AskedFor, Grant
<1>3. TypeOK'
  BY <1>1, <1>2 DEF TypeOK
<1>4. Paging'
  BY <1>1, <1>2 DEF Paging
<1>5. Checked' /\ FoundIsUsable'
  BY <1>1 DEF Checked, FoundIsUsable, OnChain
<1> QED
  BY <1>3, <1>4, <1>5 DEF GrantInv

LEMMA FilterInv == ASSUME GrantInv, Filter PROVE GrantInv'
<1>1. /\ TypeOK /\ Paging /\ Checked /\ FoundIsUsable
      /\ qpc = "filter" /\ qpc' = "done" /\ result' = "ok" /\ foundAt' = time
      /\ UNCHANGED <<kind, time, skew, expires, stable, ever, nextKey, listed, gpc, want,
                     pending, promised, asked, lost, used>>
  BY DEF GrantInv, Filter, Return, chainVars, grantVars
<1>2. PICK unpacked \in SUBSET Urls :
        /\ kind = "commitment" => unpacked = Urls
        /\ kept' = {g \in ToSet(listed) :
                      /\ StillValid(g)
                      /\ g.url \in unpacked
                      /\ kind = "execution" => g.url \in Ours}
  BY DEF Filter
<1>3. Held' = Held /\ AskedFor' = AskedFor /\ (\A u : Grant(u)' = Grant(u))
  BY <1>1 DEF Held, AskedFor, Grant
<1>4. ToSet(listed) \subseteq ever
  <2>1. listed \in Seq(ever) /\ DOMAIN listed = 1..Len(listed)
    BY <1>1, LenProperties DEF TypeOK
  <2> QED
    BY <2>1, ElementOfSeq DEF ToSet
<1>5. TypeOK'
  <2>1. kept' \in SUBSET ever'
    BY <1>1, <1>2, <1>4
  <2>2. foundAt' \in 0..MaxTime
    BY <1>1 DEF TypeOK
  <2> QED
    BY <1>1, <1>3, <2>1, <2>2 DEF TypeOK
<1>6. Paging'
  BY <1>1, <1>3 DEF Paging, TypeOK
<1>7. used = "no"
  BY <1>1 DEF Checked
<1>8. ASSUME kind = "commitment"
      PROVE  /\ asked # 0 => kept' # {} \/ asked < Clock
             /\ \A g \in kept' : time + skew <= g.exp /\ (~lost => OnChain(g.exp))
  <2>1. PICK h \in ever : /\ listed = <<h>>
                          /\ asked # 0 => h.exp = asked
                          /\ ~lost => OnChain(h.exp)
    BY <1>1, <1>8 DEF Checked
  <2>2. ToSet(listed) = {h} /\ h.url \in Urls /\ h.exp \in Int /\ kind # "execution"
    <3>1. ToSet(listed) = {h}
      BY <2>1 DEF ToSet
    <3>2. h \in [url : Urls, exp : Expirations]
      BY <1>1 DEF TypeOK
    <3>3. Expirations \subseteq Int
      BY DEF Expirations
    <3> QED
      BY <1>8, <3>1, <3>2, <3>3
  <2>3. kept' = {g \in {h} : StillValid(g)}
    BY <1>2, <1>8, <2>2
  <2>4. time \in Int /\ skew \in Int /\ Clock = time + skew /\ Clock \in Int
    BY <1>1 DEF TypeOK, Clock
  <2>5. StillValid(h) <=> Clock <= h.exp
    BY <2>2, <2>4 DEF StillValid
  <2> QED
    BY <2>1, <2>2, <2>3, <2>4, <2>5
<1>9. Checked'
  <2>1. Clock' = Clock /\ \A e : OnChain(e)' = OnChain(e)
    BY <1>1 DEF Clock, OnChain
  <2>2. foundAt' <= time'
    BY <1>1 DEF TypeOK
  <2> QED
    BY <1>1, <1>7, <1>8, <2>1, <2>2 DEF Checked
<1>10. FoundIsUsable'
  BY <1>1, <1>7 DEF FoundIsUsable
<1> QED
  BY <1>5, <1>6, <1>9, <1>10 DEF GrantInv

--------------------------------------------------------------------------------
(* The theorems.                                                           *)

LEMMA GrantInit == Init => GrantInv
<1> SUFFICES ASSUME Init PROVE GrantInv
  OBVIOUS
<1>1. /\ listed = <<>> /\ kept = {} /\ result = "none" /\ qpc = "page" /\ nextKey = 0
      /\ promised = 0 /\ asked = 0 /\ lost = FALSE /\ foundAt = 0 /\ used = "no" /\ time = 0
      /\ kind \in Kinds /\ skew \in Skews /\ gpc = "idle" /\ want = 0 /\ pending = {}
      /\ expires \in [Urls -> {0, MaxTime, Never}]
      /\ stable = Held /\ ever = {Grant(u) : u \in Held}
  BY DEF Init
<1>2. expires \in [Urls -> Expirations \cup {0}]
  <2>1. MaxTime \in 1..MaxTime \/ MaxTime = 0
    OBVIOUS
  <2>2. {0, MaxTime, Never} \subseteq Expirations \cup {0}
    BY <2>1 DEF Expirations
  <2> QED
    BY <1>1, <2>2
<1>3. ever \in SUBSET [url : Urls, exp : Expirations]
  <2>1. \A u \in Held : u \in Urls /\ expires[u] \in Expirations
    BY <1>2 DEF Held
  <2> QED
    BY <1>1, <2>1 DEF Grant
<1>4. listed \in Seq(ever) /\ Len(listed) = 0
  BY <1>1
<1>5. TypeOK
  <2>1. time \in 0..MaxTime /\ foundAt \in 0..MaxTime
    BY <1>1
  <2>2. stable \in SUBSET Held /\ kept \in SUBSET ever /\ pending \in SUBSET Expirations
    BY <1>1
  <2> QED
    BY <1>1, <1>2, <1>3, <1>4, <2>1, <2>2 DEF TypeOK
<1>6. \A u \in stable \cap AskedFor : qpc = "page" /\ nextKey <= u
  BY <1>1 DEF Held
<1>7. Paging
  BY <1>1, <1>4, <1>6 DEF Paging
<1>8. Checked /\ FoundIsUsable
  BY <1>1 DEF Checked, FoundIsUsable
<1> QED
  BY <1>5, <1>7, <1>8 DEF GrantInv

LEMMA GrantStep == ASSUME GrantInv, [Next]_vars PROVE GrantInv'
<1>1. CASE Query
  BY <1>1, PageInv, OnlyGrantInv, NotFoundInv, QueryFailsInv, FilterInv DEF Query, Answered
<1>2. CASE Granting
  BY <1>2, DeliverInv, CallerInv DEF Granting
<1>3. CASE Chain
  BY <1>3, TickStep, UseInv, PruneInv, ChangeInv DEF Chain
<1>4. CASE UNCHANGED vars
  <2>1. /\ UNCHANGED <<kind, time, skew, chainVars, queryVars, asked, foundAt>>
        /\ UNCHANGED <<lost, used, gpc, want, pending, promised>>
    BY <1>4 DEF vars, grantVars, checkVars
  <2>2. /\ gpc \in {"idle", "sent", "ok", "err"} /\ want \in Expirations \cup {0}
        /\ pending \in SUBSET Expirations /\ lost \in BOOLEAN
    BY DEF GrantInv, TypeOK
  <2> QED
    BY <2>1, <2>2, QuietStep
<1> QED
  BY <1>1, <1>2, <1>3, <1>4 DEF Next

\* The invariant of the queries and the grants holds in every reachable state.
THEOREM GrantInductive == Spec => []GrantInv
<1>1. GrantInv /\ [Next]_vars => GrantInv'
  BY GrantStep
<1> QED
  BY GrantInit, <1>1, PTL DEF Spec

\* Every variable keeps its type; in particular, what a query collects and keeps
\* are grants that were on chain.
THEOREM TypeCorrect == Spec => []TypeOK
<1>1. GrantInv => TypeOK
  BY DEF GrantInv
<1> QED
  BY GrantInductive, <1>1, PTL

\* A grant that HasContractCommitmentGrant found is accepted when it is used,
\* unless it was replaced, revoked or expired meanwhile.
THEOREM FoundIsUsableHolds == Spec => []FoundIsUsable
<1>1. GrantInv => FoundIsUsable
  BY DEF GrantInv
<1> QED
  BY GrantInductive, <1>1, PTL

\* Whoever was told that GrantContractCommitFunds succeeded finds the grant as
\* long as it lasts.
THEOREM GrantThenHasHolds == Spec => []GrantThenHas
<1>1. GrantInv => GrantThenHas
  <2> SUFFICES ASSUME GrantInv, result = "ok", asked # 0, time < asked, Clock <= asked
               PROVE  kept # {}
    BY DEF GrantThenHas
  <2>1. kind = "commitment"
    BY DEF GrantInv, Checked
  <2>2. kept # {} \/ asked <= time \/ asked < Clock
    BY <2>1 DEF GrantInv, Checked
  <2>3. time \in Int /\ Clock \in Int /\ asked \in Int
    BY DEF GrantInv, TypeOK, Clock, Expirations
  <2> QED
    BY <2>2, <2>3
<1> QED
  BY GrantInductive, <1>1, PTL

--------------------------------------------------------------------------------
(* The queries implement the listing.                                      *)

\* The message types of what was collected.
LEMMA UrlsOf ==
  ASSUME NEW E, NEW A, NEW s \in Seq(E), \A i \in 1..Len(s) : s[i].url \in A
  PROVE  /\ Len(s) \in Nat
         /\ [i \in DOMAIN s |-> s[i].url] \in Seq({g.url : g \in E} \cap A)
         /\ Len([i \in DOMAIN s |-> s[i].url]) = Len(s)
         /\ \A i \in 1..Len(s) : [j \in DOMAIN s |-> s[j].url][i] = s[i].url
<1> DEFINE U == {g.url : g \in E} \cap A
           v == [i \in DOMAIN s |-> s[i].url]
<1>1. Len(s) \in Nat /\ DOMAIN s = 1..Len(s) /\ \A i \in 1..Len(s) : s[i] \in E
  BY LenProperties
<1>2. v \in [1..Len(s) -> U]
  BY <1>1
<1> HIDE DEF U
<1>3. v \in Seq(U) /\ Len(v) = Len(s)
  BY <1>1, <1>2
<1> QED
  BY <1>1, <1>3 DEF U

\* Whatever becomes of the grants is a change of what is listed.
LEMMA ChainRefines ==
  ASSUME GrantInv, TypeOK', UNCHANGED <<kind, queryVars>>, Track \/ UNCHANGED chainVars
  PROVE  Abstract!Change
<1>1. TypeOK /\ (\A u \in Held : Grant(u) \in ever) /\ expires' \in [Urls -> Expirations \cup {0}]
  BY DEF GrantInv, Paging, TypeOK
<1>2. /\ stable' = stable \cap Held'
      /\ {g.url : g \in ever'} = {g.url : g \in ever} \cup Held'
  BY <1>1, TrackType
<1>3. AskedFor' = AskedFor /\ ListedUrls' = ListedUrls /\ Outcome' = Outcome
  BY DEF queryVars, AskedFor, ListedUrls, Outcome
<1>4. Held' \subseteq Urls
  BY DEF Held
<1> HIDE DEF Held, AskedFor, ListedUrls, Outcome
<1> QED
  BY <1>2, <1>3, <1>4 DEF Abstract!Change

\* A page request adds to the list.
LEMMA PageRefines ==
  ASSUME GrantInv, GrantInv', UNCHANGED <<kind, chainVars, result>>, result = "none",
         Len(listed) <= Len(listed'), \A i \in 1..Len(listed) : listed'[i] = listed[i]
  PROVE  Abstract!List
<1> DEFINE U == {g.url : g \in ever} \cap AskedFor
<1>1. /\ expires' = expires /\ stable' = stable /\ ever' = ever
      /\ AskedFor' = AskedFor /\ Held' = Held /\ Outcome = "none" /\ Outcome' = "none"
  BY DEF chainVars, AskedFor, Held, Outcome
<1>2. /\ listed \in Seq(ever) /\ listed' \in Seq(ever)
      /\ \A i \in 1..Len(listed) : listed[i].url \in AskedFor
      /\ \A i \in 1..Len(listed') : listed'[i].url \in AskedFor
      /\ \A i, j \in 1..Len(listed') : i < j => listed'[i].url < listed'[j].url
  <2>1. /\ listed \in Seq(ever)
        /\ \A i \in 1..Len(listed) : listed[i].url \in AskedFor
    BY DEF GrantInv, TypeOK, Paging
  <2>2. listed' \in Seq(ever')
    BY DEF GrantInv, TypeOK
  <2>3. /\ \A i \in 1..Len(listed') : listed'[i].url \in AskedFor'
        /\ \A i, j \in 1..Len(listed') : i < j => listed'[i].url < listed'[j].url
    BY DEF GrantInv, Paging
  <2> QED
    BY <1>1, <2>1, <2>2, <2>3
<1>3. /\ Len(ListedUrls) = Len(listed) /\ Len(listed) \in Nat
      /\ \A i \in 1..Len(listed) : ListedUrls[i] = listed[i].url
  BY <1>2, UrlsOf DEF ListedUrls
<1>4. /\ ListedUrls' \in Seq(U)
      /\ Len(ListedUrls') = Len(listed') /\ Len(listed') \in Nat
      /\ \A i \in 1..Len(listed') : ListedUrls'[i] = listed'[i].url
  BY <1>2, UrlsOf DEF ListedUrls
<1>5. \A i \in 1..Len(listed) : ListedUrls'[i] = ListedUrls[i]
  BY <1>3, <1>4
<1>6. \A i, j \in 1..Len(ListedUrls') : i < j => ListedUrls'[i] < ListedUrls'[j]
  BY <1>2, <1>4
<1>7. Len(ListedUrls) <= Len(ListedUrls')
  BY <1>3, <1>4
<1> QED
  BY <1>1, <1>3, <1>4, <1>5, <1>6, <1>7 DEF Abstract!List

\* The query that is answered to the end misses nothing.
LEMMA FinishRefines ==
  ASSUME GrantInv, UNCHANGED <<kind, chainVars, listed>>, result = "none",
         \/ result' = "err"
         \/ result' = "ok" /\ qpc = "filter"
         \/ result' = "ok" /\ stable \cap AskedFor = {}
  PROVE  Abstract!Finish
<1>1. /\ expires' = expires /\ stable' = stable /\ ever' = ever
      /\ AskedFor' = AskedFor /\ Held' = Held /\ ListedUrls' = ListedUrls
      /\ Outcome = "none"
      /\ Outcome' = IF result' = "ok" THEN "complete" ELSE "failed"
  BY DEF chainVars, AskedFor, Held, ListedUrls, Outcome
<1>2. /\ listed \in Seq(ever)
      /\ \A i \in 1..Len(listed) : listed[i].url \in AskedFor
      /\ qpc = "filter" => \A u \in stable \cap AskedFor :
                             \E i \in 1..Len(listed) : listed[i].url = u
  BY DEF GrantInv, TypeOK, Paging
<1>3. /\ Len(ListedUrls) = Len(listed)
      /\ \A i \in 1..Len(listed) : ListedUrls[i] = listed[i].url
  BY <1>2, UrlsOf DEF ListedUrls
<1>4. result' = "ok" => \A u \in stable \cap AskedFor :
                          \E i \in 1..Len(ListedUrls) : ListedUrls[i] = u
  BY <1>2, <1>3
<1> QED
  BY <1>1, <1>4 DEF Abstract!Finish

LEMMA ListingStep ==
  ASSUME GrantInv, GrantInv', [Next]_vars
  PROVE  Abstract!Next
<1>0. TypeOK /\ Paging /\ TypeOK' /\ (\A u \in Held : Grant(u) \in ever)
  BY DEF GrantInv, Paging
<1>1. CASE MorePages \/ LastPage
  <2>1. /\ Collect(Page) /\ UNCHANGED <<kind, chainVars, result>> /\ qpc = "page"
    BY <1>1 DEF MorePages, LastPage
  <2>2. Page \in SUBSET Held
    BY DEF Page, Matching
  <2>3. /\ Len(listed) <= Len(listed')
        /\ \A i \in 1..Len(listed) : listed'[i] = listed[i]
    <3>1. PICK m \in Nat : \E s \in [1..m -> Page] :
            /\ {s[i] : i \in 1..m} = Page
            /\ \A i, j \in 1..m : i < j => s[i] < s[j]
            /\ Len(listed) \in Nat
            /\ listed' \in Seq(ever) /\ Len(listed') = Len(listed) + m
            /\ \A i \in 1..Len(listed) : listed'[i] = listed[i]
            /\ \A i \in 1..m : listed'[Len(listed) + i] = Grant(s[i])
      BY <1>0, <2>1, <2>2, CollectIs
    <3>2. /\ Len(listed) \in Nat /\ Len(listed') = Len(listed) + m
          /\ \A i \in 1..Len(listed) : listed'[i] = listed[i]
      BY <3>1
    <3> QED
      BY <3>2
  <2>4. result = "none"
    BY <1>0, <2>1 DEF TypeOK
  <2> QED
    BY <2>1, <2>3, <2>4, PageRefines DEF Abstract!Next
<1>2. CASE OnlyGrant
  <2>1. listed = <<>> /\ listed' = <<Grant(Commit)>>
    BY <1>2, OnlyGrantInv
  <2>2. UNCHANGED <<kind, chainVars, result>> /\ qpc = "page"
    BY <1>2 DEF OnlyGrant
  <2>3. result = "none"
    BY <1>0, <2>2 DEF TypeOK
  <2>4. Len(listed) = 0 /\ Len(listed') = 1
    BY <2>1
  <2>5. Len(listed) <= Len(listed') /\ \A i \in 1..Len(listed) : listed'[i] = listed[i]
    BY <2>4
  <2> QED
    BY <2>2, <2>3, <2>5, PageRefines DEF Abstract!Next
<1>3. CASE NotFound
  <2>1. stable \cap AskedFor = {}
    BY <1>3, NotFoundInv
  <2>2. UNCHANGED <<kind, chainVars, listed>> /\ qpc = "page" /\ result' = "ok"
    BY <1>3 DEF NotFound, Return
  <2>3. result = "none"
    BY <1>0, <2>2 DEF TypeOK
  <2> QED
    BY <2>1, <2>2, <2>3, FinishRefines DEF Abstract!Next
<1>4. CASE QueryFails \/ Filter
  <2>1. /\ UNCHANGED <<kind, chainVars, listed>> /\ qpc \in {"page", "filter"}
        /\ result' = "err" \/ (result' = "ok" /\ qpc = "filter")
    BY <1>4 DEF QueryFails, Filter, Return
  <2>2. result = "none"
    BY <1>0, <2>1 DEF TypeOK
  <2> QED
    BY <2>1, <2>2, FinishRefines DEF Abstract!Next
<1>5. CASE Granting
  <2>1. UNCHANGED <<kind, queryVars>> /\ (Track \/ UNCHANGED chainVars)
    BY <1>5 DEF Granting, BuildGrant, Deliver, GrantFails, GiveUp
  <2> QED
    BY <1>0, <2>1, ChainRefines DEF Abstract!Next
<1>6. CASE Chain
  <2>1. UNCHANGED <<kind, queryVars>> /\ (Track \/ UNCHANGED chainVars)
    BY <1>6 DEF Chain, Tick, Use, Prune, Change
  <2> QED
    BY <1>0, <2>1, ChainRefines DEF Abstract!Next
<1>7. CASE UNCHANGED vars
  <2>1. UNCHANGED <<kind, queryVars>> /\ UNCHANGED chainVars
    BY <1>7 DEF vars
  <2> QED
    BY <1>0, <2>1, ChainRefines DEF Abstract!Next
<1> QED
  BY <1>1, <1>2, <1>3, <1>4, <1>5, <1>6, <1>7 DEF Next, Query, Answered

LEMMA ListingInit == Init => Abstract!Init
<1> SUFFICES ASSUME Init PROVE Abstract!Init
  OBVIOUS
<1>1. stable = Held /\ ever = {Grant(u) : u \in Held} /\ listed = <<>> /\ result = "none"
  BY DEF Init
<1>2. \A u : Grant(u).url = u
  BY DEF Grant
<1>3. {g.url : g \in ever} = Held
  BY <1>1, <1>2
<1>4. ListedUrls = <<>> /\ Outcome = "none"
  BY <1>1 DEF ListedUrls, Outcome
<1>5. Held \subseteq Urls
  BY DEF Held
<1> QED
  BY <1>1, <1>3, <1>4, <1>5 DEF Abstract!Init

\* Both queries list the grants they ask for: in order, each once, none made up,
\* and none missing that was there from the first page request to the answer.
THEOREM GrantsImplementListing == Spec => ImplementsListing
<1>1. GrantInv /\ GrantInv' /\ [Next]_vars => [Abstract!Next]_(Abstract!listingVars)
  BY ListingStep
<1> QED
  BY GrantInductive, ListingInit, <1>1, PTL DEF Spec, ImplementsListing, Abstract!Spec
================================================================================
