--------------------------- MODULE ClientSetupProofs ---------------------------
(***************************************************************************)
(* Proofs about the construction and use of clients, for any number of      *)
(* goroutines, kinds, calls and constructions: one query client per kind,   *)
(* addresses that stay readable, and clients that sign as configured.       *)
(***************************************************************************)
EXTENDS ClientSetup, TLAPS

USE QueryAssumption

LEMMA InitInv == Init => QueryInv
BY DEF Init, QueryInv, QueryTypeOK, Inside

\* Only one user is inside, so only its own step changes what it sees.
LEMMA StepInv == QueryInv /\ [Next]_queryVars => QueryInv'
<1> SUFFICES ASSUME QueryInv, [Next]_queryVars PROVE QueryInv'
  OBVIOUS
<1> USE DEF QueryInv, QueryTypeOK, Inside, Goto
<1>1. ASSUME NEW u \in Users, NEW k \in Kinds, Call(u, k) PROVE QueryInv'
  BY <1>1 DEF Call
<1>2. ASSUME NEW u \in Users, Enter(u) PROVE QueryInv'
  BY <1>2 DEF Enter
<1>3. ASSUME NEW u \in Users, Test(u) PROVE QueryInv'
  BY <1>3 DEF Test
<1>4. ASSUME NEW u \in Users, Create(u) PROVE QueryInv'
  <2>1. field[kind[u]] = 0 /\ mu = u
    BY <1>4 DEF Create
  <2>2. /\ field' = [field EXCEPT ![kind[u]] = made + 1]
        /\ made + 1 \in Nat \ {0}
        /\ UNCHANGED <<mu, kind, gets, got>>
    BY <1>4 DEF Create
  <2>3. \A g \in got : g.kind # kind[u]
    BY <2>1
  <2>4. \A v \in Users : v # u => pc'[v] = pc[v] /\ pc[v] \notin Inside
    BY <1>4, <2>1 DEF Create
  <2>5. QueryTypeOK'
    BY <1>4, <2>1, <2>2 DEF Create
  <2>6. \A g \in got' : g.client = field'[g.kind] /\ g.client # 0
    BY <2>2, <2>3
  <2>7. pc'[u] = "return"
    BY <1>4 DEF Create
  <2> QED
    BY <2>2, <2>4, <2>5, <2>6, <2>7
<1>5. ASSUME NEW u \in Users, Leave(u) PROVE QueryInv'
  <2>1. field[kind[u]] # 0 /\ field[kind[u]] \in Nat /\ kind[u] \in Kinds
    BY <1>5 DEF Leave
  <2>2. got' = got \cup {[kind |-> kind[u], client |-> field[kind[u]]]}
    BY <1>5 DEF Leave
  <2>3. \A g \in got' : g.client = field'[g.kind] /\ g.client # 0
    BY <1>5, <2>1, <2>2 DEF Leave
  <2>4. got' \in SUBSET [kind : Kinds, client : Nat]
    BY <2>1, <2>2
  <2>5. QueryTypeOK'
    BY <1>5, <2>4 DEF Leave
  <2> QED
    BY <1>5, <2>3, <2>5 DEF Leave
<1>6. CASE UNCHANGED queryVars
  BY <1>6 DEF queryVars
<1> QED
  BY <1>1, <1>2, <1>3, <1>4, <1>5, <1>6 DEF Next, Get, AllGot

\* The inductive invariant of the getters (c.mu held around test and creation).
THEOREM Inductive == QuerySpec => []QueryInv
BY InitInv, StepInv, PTL DEF QuerySpec

LEMMA InvGivesOne == QueryInv => OneClientPerKind
BY DEF QueryInv, OneClientPerKind

\* All goroutines that ask for the same kind are given one client, never nil.
THEOREM OneClient == QuerySpec => []OneClientPerKind
BY Inductive, InvGivesOne, PTL

--------------------------------------------------------------------------------
(* Construction, with the getters of the shared client beside it.           *)

LEMMA SetupInitInv == SetupInit => SetupInv
<1> SUFFICES ASSUME SetupInit PROVE SetupInv
  OBVIOUS
<1>1. QueryTypeOK
  BY InitInv DEF SetupInit, QueryInv
<1>2. \A b \in Builders : stage[b] = "idle" /\ conn[b] = "none"
  BY DEF SetupInit
<1>3. SetupTypeOK
  <2>1. /\ stage \in [Builders -> Configuring \cup Configured]
        /\ conn \in [Builders -> {"none", "open", "closed"}]
        /\ key \in [Builders -> Nat]
    BY DEF SetupInit, Configuring
  <2>4. address \in [Builders -> [key : Nat, prefix : Prefixes]]
    <3>1. [key |-> 0, prefix |-> "none"] \in [key : Nat, prefix : Prefixes]
      BY DEF Prefixes
    <3> QED
      BY <3>1 DEF SetupInit
  <2>2. overlap \in BOOLEAN /\ sdk \in [prefix : Prefixes, coinType : Nat, sealed : BOOLEAN]
    <3>1. [prefix |-> "cosmos", coinType |-> 118, sealed |-> FALSE]
            \in [prefix : Prefixes, coinType : Nat, sealed : BOOLEAN]
      BY DEF Prefixes
    <3> QED
      BY <3>1 DEF SetupInit
  <2>3. process \in {"runs", "panicked"}
    BY DEF SetupInit
  <2> QED
    BY <1>1, <1>2, <2>1, <2>2, <2>3, <2>4 DEF SetupTypeOK
<1>4. Identities /\ OneAtATime
  BY <1>2, SetupAssumption DEF Identities, OneAtATime, Busy, Ended, Configured
<1> QED
  BY <1>3, <1>4 DEF SetupInv

LEMMA QueryKeeps ==
  ASSUME QueryInv, [SetupNext]_allVars
  PROVE  QueryInv'
<1>1. [Next]_queryVars
  BY DEF SetupNext, Query, Ask, Over, Next, allVars
<1> QED
  BY <1>1, StepInv

\* A construction that moves on changes nobody else's stage.
LEMMA OthersStay ==
  ASSUME SetupTypeOK, NEW b \in Builders, NEW from, NEW to \in Configuring \cup Configured,
         Move(b, from, to)
  PROVE  /\ stage[b] = from /\ stage'[b] = to
         /\ \A a \in Builders : a # b => stage'[a] = stage[a]
         /\ stage' \in [Builders -> Configuring \cup Configured]
BY DEF SetupTypeOK, Move

\* A step past Seal, or one that only fails, and touches no identity.
LEMMA MovesOn ==
  ASSUME SetupInv, QueryTypeOK', NEW b \in Builders,
         NEW from \in {"dial", "mnemonic", "address", "account", "ready"}, NEW to \in Configured,
         Move(b, from, to), UNCHANGED <<overlap, sdk, process>>,
         conn' \in [Builders -> {"none", "open", "closed"}],
         \A a \in Builders : a # b => conn'[a] = conn[a],
         from = "ready" => to = "closed",
         to \in {"mnemonic", "address", "account", "ready"} => conn'[b] = "open",
         to = "closed" => conn'[b] = "closed",
         key' \in [Builders -> Nat],
         \A a \in Builders : a # b => key'[a] = key[a],
         address' \in [Builders -> [key : Nat, prefix : Prefixes]],
         \A a \in Builders : a # b => address'[a] = address[a],
         b \in Signers /\ to \in {"address", "account", "ready", "closed"} => key'[b] = Conf[b].coinType,
         b \in Signers /\ to \in {"account", "ready", "closed"} =>
           address'[b] = [key |-> key'[b], prefix |-> sdk.prefix]
  PROVE  SetupInv'
<1>1. /\ stage[b] = from /\ stage'[b] = to
      /\ \A a \in Builders : a # b => stage'[a] = stage[a]
      /\ stage' \in [Builders -> Configuring \cup Configured]
  BY OthersStay DEF SetupInv
<1>2. SetupTypeOK'
  BY <1>1 DEF SetupInv, SetupTypeOK
<1>3. Identities'
  <2>1. Signers \subseteq Builders /\ Identities /\ sdk' = sdk
    BY SetupAssumption DEF SetupInv
  <2>2. sdk.sealed
    BY <1>1, <2>1 DEF Identities, Configured
  <2>3. ASSUME NEW a \in Signers, a # b
        PROVE  /\ stage'[a] \in {"address", "account", "ready", "closed"} => key'[a] = Conf[a].coinType
               /\ stage'[a] \in {"account", "ready", "closed"} =>
                    address'[a] = [key |-> key'[a], prefix |-> sdk'.prefix]
    BY <1>1, <2>1, <2>3 DEF Identities
  <2>4. b \in Signers =>
          /\ stage'[b] \in {"address", "account", "ready", "closed"} => key'[b] = Conf[b].coinType
          /\ stage'[b] \in {"account", "ready", "closed"} =>
               address'[b] = [key |-> key'[b], prefix |-> sdk'.prefix]
    BY <1>1, <2>1
  <2> QED
    BY <2>1, <2>2, <2>3, <2>4 DEF Identities
<1>4. OneAtATime'
  <2>1. Busy' \subseteq Busy
    <3>1. stage'[b] \notin Ended => stage[b] \notin Ended
      BY <1>1 DEF Ended
    <3> QED
      BY <1>1, <3>1 DEF Busy
  <2>2. \A a \in Builders : stage'[a] \notin {"idle", "prefix"} => stage[a] \notin {"idle", "prefix"}
    BY <1>1
  <2> QED
    BY <2>1, <2>2 DEF SetupInv, OneAtATime
<1> QED
  BY <1>2, <1>3, <1>4 DEF SetupInv

LEMMA ConfigureStep ==
  ASSUME SetupInv, QueryTypeOK', NEW b \in Builders,
         Begin(b) \/ SetPrefix(b) \/ SetCoinType(b) \/ Seal(b)
  PROVE  SetupInv'
<1>0. SetupTypeOK /\ Identities /\ OneAtATime /\ Signers \subseteq Builders
      /\ Conf[b].prefix \in Prefixes /\ Conf[b].coinType \in Nat
  BY SetupAssumption DEF SetupInv, Prefixes
<1>1. UNCHANGED <<overlap, process, conn, key, address>>
  BY DEF Begin, SetPrefix, SetCoinType, Seal
<1>2. CASE Begin(b)
  <2>1. /\ stage[b] = "idle" /\ stage'[b] = "prefix"
        /\ \A a \in Builders : a # b => stage'[a] = stage[a]
        /\ stage' \in [Builders -> Configuring \cup Configured]
    BY <1>0, <1>2, OthersStay DEF Begin, Configuring
  <2>2. sdk' = sdk /\ (overlap \/ Busy = {})
    BY <1>2 DEF Begin
  <2>3. SetupTypeOK'
    BY <1>0, <1>1, <2>1, <2>2 DEF SetupTypeOK
  <2>4. Identities'
    BY <1>0, <1>1, <2>1, <2>2 DEF Identities, Configured
  <2>5. OneAtATime'
    BY <1>0, <1>1, <2>1, <2>2 DEF OneAtATime, Busy
  <2> QED
    BY <2>3, <2>4, <2>5 DEF SetupInv
<1>3. CASE SetPrefix(b)
  <2>1. /\ stage[b] = "prefix" /\ stage'[b] = "coinType"
        /\ \A a \in Builders : a # b => stage'[a] = stage[a]
        /\ stage' \in [Builders -> Configuring \cup Configured]
    BY <1>0, <1>3, OthersStay DEF SetPrefix, Configuring
  <2>2. /\ ~sdk.sealed
        /\ sdk' \in [prefix : Prefixes, coinType : Nat, sealed : BOOLEAN]
        /\ sdk'.prefix = Conf[b].prefix /\ sdk'.sealed = sdk.sealed
    BY <1>0, <1>3 DEF SetPrefix, SetupTypeOK
  <2>3. \A a \in Builders : stage[a] \notin Configured /\ stage'[a] \notin Configured
    BY <1>0, <2>1, <2>2 DEF Identities, Configured
  <2>4. SetupTypeOK'
    BY <1>0, <1>1, <2>1, <2>2 DEF SetupTypeOK
  <2>5. Identities'
    BY <1>0, <2>3 DEF Identities, Configured
  <2>6. OneAtATime'
    <3>1. \A a \in Builders : a \in Busy' <=> a \in Busy
      BY <2>1 DEF Busy, Ended
    <3>2. b \in Busy
      BY <2>1 DEF Busy, Ended
    <3>3. \A a \in Builders : stage[a] \notin {"idle", "prefix"} => a \in Busy
      BY <1>0, <2>3 DEF SetupTypeOK, Busy, Ended, Configuring, Configured
    <3>4. overlap \/ \A a \in Builders : a # b => stage'[a] \in {"idle", "prefix"}
      BY <1>0, <2>1, <3>2, <3>3 DEF OneAtATime
    <3> QED
      BY <1>0, <1>1, <2>2, <3>1, <3>4 DEF OneAtATime, Busy
  <2> QED
    BY <2>4, <2>5, <2>6 DEF SetupInv
<1>4. CASE SetCoinType(b) \/ Seal(b)
  <2>1. PICK from \in {"coinType", "seal"}, to \in {"seal", "dial"} : Move(b, from, to)
    BY <1>4 DEF SetCoinType, Seal
  <2>2. /\ stage[b] = from /\ stage'[b] = to
        /\ \A a \in Builders : a # b => stage'[a] = stage[a]
        /\ stage' \in [Builders -> Configuring \cup Configured]
    BY <1>0, <2>1, OthersStay DEF Configuring, Configured
  <2>3. /\ sdk' \in [prefix : Prefixes, coinType : Nat, sealed : BOOLEAN]
        /\ sdk'.prefix = sdk.prefix /\ (sdk.sealed => sdk'.sealed)
        /\ to = "dial" => sdk'.sealed
    <3>1. CASE SetCoinType(b)
      <4>1. to = "seal"
        BY <2>2, <3>1, OthersStay, <1>0 DEF SetCoinType, Configuring
      <4> QED
        BY <1>0, <3>1, <4>1 DEF SetCoinType, SetupTypeOK
    <3>2. CASE Seal(b)
      BY <1>0, <3>2 DEF Seal, SetupTypeOK
    <3> QED
      BY <1>4, <3>1, <3>2
  <2>4. SetupTypeOK'
    BY <1>0, <1>1, <2>2, <2>3 DEF SetupTypeOK
  <2>5. Identities'
    BY <1>0, <1>1, <2>2, <2>3 DEF Identities, Configured
  <2>6. OneAtATime'
    <3>1. Busy' = Busy
      BY <2>2 DEF Busy, Ended
    <3> QED
      BY <1>0, <1>1, <2>2, <2>3, <3>1 DEF OneAtATime
  <2> QED
    BY <2>4, <2>5, <2>6 DEF SetupInv
<1> QED
  BY <1>2, <1>3, <1>4

LEMMA IdentityStep ==
  ASSUME SetupInv, QueryTypeOK', NEW b \in Builders,
         Dial(b) \/ DeriveKey(b) \/ RenderAddress(b) \/ FirstReset(b) \/ Close(b)
  PROVE  SetupInv'
<1>0. SetupTypeOK /\ Identities /\ Signers \subseteq Builders
      /\ Conf[b].prefix \in Prefixes /\ Conf[b].coinType \in Nat
  BY SetupAssumption DEF SetupInv, Prefixes
<1> USE DEF Configured
<1>1. CASE Dial(b)
  <2>1. UNCHANGED <<overlap, sdk, process, key, address>>
    BY <1>1 DEF Dial
  <2>2. /\ conn' \in [Builders -> {"none", "open", "closed"}]
        /\ \A a \in Builders : a # b => conn'[a] = conn[a]
    BY <1>0, <1>1 DEF Dial, SetupTypeOK
  <2>3. CASE Move(b, "dial", "failed")
    BY <1>0, <2>1, <2>2, <2>3, MovesOn DEF SetupTypeOK
  <2>4. CASE Move(b, "dial", IF b \in Signers THEN "mnemonic" ELSE "ready") /\ conn'[b] = "open"
    <3>1. CASE b \in Signers
      BY <1>0, <2>1, <2>2, <2>4, <3>1, MovesOn DEF SetupTypeOK
    <3>2. CASE b \notin Signers
      BY <1>0, <2>1, <2>2, <2>4, <3>2, MovesOn DEF SetupTypeOK
    <3> QED
      BY <3>1, <3>2
  <2> QED
    BY <1>0, <1>1, <2>3, <2>4 DEF Dial, SetupTypeOK
<1>2. CASE DeriveKey(b)
  <2>1. UNCHANGED <<overlap, sdk, process, conn, address>>
    BY <1>2 DEF DeriveKey
  <2>2. CASE Move(b, "mnemonic", "failed") /\ UNCHANGED key
    BY <1>0, <2>1, <2>2, MovesOn DEF SetupTypeOK
  <2>3. CASE Move(b, "mnemonic", "address") /\ key' = [key EXCEPT ![b] = Conf[b].coinType]
    <3>1. /\ key' \in [Builders -> Nat] /\ key'[b] = Conf[b].coinType
          /\ \A a \in Builders : a # b => key'[a] = key[a]
      BY <1>0, <2>3 DEF SetupTypeOK
    <3>2. conn'[b] = "open"
      BY <1>0, <2>1, <2>3 DEF SetupTypeOK, Move
    <3> QED
      BY <1>0, <2>1, <2>3, <3>1, <3>2, MovesOn DEF SetupTypeOK
  <2> QED
    BY <1>2, <2>2, <2>3 DEF DeriveKey
<1>3. CASE RenderAddress(b)
  <2>1. UNCHANGED <<overlap, sdk, process, conn, key>> /\ Move(b, "address", "account")
    BY <1>3 DEF RenderAddress
  <2>2. stage[b] = "address"
    BY <2>1 DEF Move
  <2>3. /\ address' \in [Builders -> [key : Nat, prefix : Prefixes]]
        /\ address'[b] = [key |-> key[b], prefix |-> sdk.prefix]
        /\ \A a \in Builders : a # b => address'[a] = address[a]
    <3>1. [key |-> key[b], prefix |-> sdk.prefix] \in [key : Nat, prefix : Prefixes]
      BY <1>0 DEF SetupTypeOK
    <3> QED
      BY <1>0, <1>3, <3>1 DEF RenderAddress, SetupTypeOK
  <2>4. /\ b \in Signers => key[b] = Conf[b].coinType
        /\ conn'[b] = "open"
    BY <1>0, <2>1, <2>2 DEF Identities, SetupTypeOK
  <2> QED
    BY <1>0, <2>1, <2>3, <2>4, MovesOn DEF SetupTypeOK
<1>4. CASE FirstReset(b)
  <2>1. UNCHANGED <<overlap, sdk, process, conn, key, address>>
    BY <1>4 DEF FirstReset
  <2>2. PICK to \in {"ready", "failed"} : Move(b, "account", to)
    BY <1>4 DEF FirstReset
  <2>3. stage[b] = "account"
    BY <2>2 DEF Move
  <2>4. /\ conn'[b] = "open"
        /\ b \in Signers => key'[b] = Conf[b].coinType
        /\ b \in Signers => address'[b] = [key |-> key'[b], prefix |-> sdk.prefix]
    BY <1>0, <2>1, <2>3 DEF SetupTypeOK, Identities
  <2>5. /\ conn' \in [Builders -> {"none", "open", "closed"}]
        /\ key' \in [Builders -> Nat]
        /\ address' \in [Builders -> [key : Nat, prefix : Prefixes]]
        /\ conn' = conn /\ key' = key /\ address' = address
    BY <1>0, <2>1 DEF SetupTypeOK
  <2>6. CASE to = "ready"
    BY <2>1, <2>2, <2>4, <2>5, <2>6, MovesOn
  <2>7. CASE to = "failed"
    BY <2>1, <2>2, <2>5, <2>7, MovesOn
  <2> QED
    BY <2>2, <2>6, <2>7
<1>5. CASE Close(b)
  <2>1. UNCHANGED <<overlap, sdk, process, key, address>> /\ Move(b, "ready", "closed")
    BY <1>5 DEF Close
  <2>2. stage[b] = "ready"
    BY <2>1 DEF Move
  <2>3. /\ conn' \in [Builders -> {"none", "open", "closed"}] /\ conn'[b] = "closed"
        /\ \A a \in Builders : a # b => conn'[a] = conn[a]
    BY <1>0, <1>5 DEF Close, SetupTypeOK
  <2> QED
    BY <1>0, <2>1, <2>2, <2>3, MovesOn DEF SetupTypeOK, Identities
<1> QED
  BY <1>1, <1>2, <1>3, <1>4, <1>5

LEMMA SetupStep ==
  ASSUME SetupInv, QueryInv, [SetupNext]_allVars
  PROVE  SetupInv'
<1>1. QueryTypeOK'
  BY QueryKeeps DEF QueryInv
<1>2. ASSUME UNCHANGED <<overlap, sdk, stage, conn, key, address>>,
             process' \in {"runs", "panicked"}
      PROVE  SetupInv'
  BY <1>1, <1>2 DEF SetupInv, SetupTypeOK, Identities, OneAtATime, Busy
<1>3. ASSUME NEW b \in Builders, Construct(b) PROVE SetupInv'
  <2>1. CASE Panic(b)
    BY <1>2, <2>1 DEF Panic
  <2> QED
    BY <1>1, <1>3, <2>1, ConfigureStep, IdentityStep DEF Construct
<1>4. CASE MapRace
  BY <1>2, <1>4 DEF MapRace
<1>5. CASE UNCHANGED setupVars
  BY <1>2, <1>5 DEF setupVars, SetupInv, SetupTypeOK
<1> QED
  BY <1>3, <1>4, <1>5 DEF SetupNext, Query, Over, allVars

--------------------------------------------------------------------------------
\* With the constructions around them the getters keep their invariant, and the
\* construction its own.
THEOREM SetupInductive == SetupSpec => [](SetupInv /\ QueryInv)
<1>1. SetupInit => SetupInv /\ QueryInv
  BY SetupInitInv, InitInv DEF SetupInit
<1>2. (SetupInv /\ QueryInv) /\ [SetupNext]_allVars => (SetupInv /\ QueryInv)'
  BY SetupStep, QueryKeeps
<1> QED
  BY <1>1, <1>2, PTL DEF SetupSpec

\* Type correctness: a client past its dial has a connection until it is closed.
THEOREM SetupTypeCorrect == SetupSpec => []SetupTypeOK
BY SetupInductive, PTL DEF SetupInv

\* The goroutines of the shared client are given one client per kind, the one
\* that constructs it included (AuthClient in ResetSequence).
THEOREM OneClientBesideSetup == SetupSpec => []OneClientPerKind
BY SetupInductive, InvGivesOne, PTL

\* The prefix under which the addresses of a process were rendered stays the one
\* the SDK reads them with, however many constructions overlap or fail (connect).
THEOREM AddressesStayReadable == SetupSpec => []AddressesReadBack
<1>1. SetupInv => AddressesReadBack
  <2> SUFFICES ASSUME SetupInv, NEW b \in Signers, stage[b] \in {"account", "ready"}
               PROVE  address[b].prefix = sdk.prefix
    BY DEF AddressesReadBack
  <2>1. address[b] = [key |-> key[b], prefix |-> sdk.prefix]
    BY DEF SetupInv, Identities
  <2> QED
    BY <2>1
<1> QED
  BY <1>1, SetupInductive, PTL

\* A client that nobody else's construction overlaps signs with the key and shows
\* the address of its own configuration (NewProvenanceClient).
THEOREM SignsWithOwnIdentity == SetupSpec => []SignsAsConfigured
<1>1. SetupInv => SignsAsConfigured
  BY SetupAssumption DEF SetupInv, Identities, OneAtATime, SignsAsConfigured
<1> QED
  BY <1>1, SetupInductive, PTL
================================================================================
