------------------------------ MODULE ClientSetup ------------------------------
(***************************************************************************)
(* NewProvenanceClient in one process.  connect writes the address prefix   *)
(* and the coin type into the SDK configuration, which all clients of the   *)
(* process share, and seals it; a client with a mnemonic then derives its   *)
(* key, renders its address and asks for its account.  The configuration is *)
(* external: a write to a sealed one panics, and nobody recovers.           *)
(*                                                                          *)
(* One of the clients is shared: its query clients are those of             *)
(* QueryClients.  The goroutine that constructs it is the first to ask for  *)
(* one; the others use the client once it is ready.                         *)
(***************************************************************************)
EXTENDS QueryClients, FiniteSets

CONSTANTS
  Builders,  \* constructions, one client each
  Conf,      \* per builder: its address prefix and coin type
  Signers,   \* builders with a mnemonic file
  Shared,    \* the builder whose client is shared
  Opener,    \* the user that constructs it
  Auth       \* the kind of query client that asks for accounts

ASSUME SetupAssumption ==
  /\ Signers \subseteq Builders
  /\ Conf \in [Builders -> [prefix : STRING, coinType : Nat]]
  /\ Shared \in Signers /\ Opener \in Users /\ Auth \in Kinds

VARIABLES
  overlap,   \* whether constructions run on several goroutines at a time
  sdk,       \* the SDK configuration: prefix, coinType, sealed
  process,   \* "runs" or "panicked"
  stage,     \* per builder: where it stands
  conn,      \* per builder: its gRPC connection, "none", "open" or "closed"
  key,       \* per builder: the coin type its key is derived for, 0 before
  address    \* per builder: the key and the prefix its address shows

setupVars == <<overlap, sdk, process, stage, conn, key, address>>
allVars == <<queryVars, setupVars>>

Ended == {"idle", "ready", "failed", "closed"}
Busy == {b \in Builders : stage[b] \notin Ended}

\* Before and after Seal.
Configuring == {"idle", "prefix", "coinType", "seal"}
Configured == {"dial", "mnemonic", "address", "account", "ready", "failed", "closed"}

\* The default of the SDK, "none" before an address is rendered, and the networks'.
Prefixes == {"cosmos", "none"} \cup {Conf[b].prefix : b \in Builders}

SetupInit ==
  /\ Init
  /\ overlap \in BOOLEAN
  /\ sdk = [prefix |-> "cosmos", coinType |-> 118, sealed |-> FALSE]
  /\ process = "runs"
  /\ stage = [b \in Builders |-> "idle"]
  /\ conn = [b \in Builders |-> "none"]
  /\ key = [b \in Builders |-> 0]
  /\ address = [b \in Builders |-> [key |-> 0, prefix |-> "none"]]

Move(b, from, to) ==
  /\ process = "runs"
  /\ stage[b] = from
  /\ stage' = [stage EXCEPT ![b] = to]

Begin(b) ==
  /\ overlap \/ Busy = {}
  /\ Move(b, "idle", "prefix")
  /\ UNCHANGED <<overlap, sdk, process, conn, key, address>>

--------------------------------------------------------------------------------
(* connect.                                                                *)

\* A setter of the sealed configuration panics, and the process is gone.
Panic(b) ==
  /\ process = "runs"
  /\ stage[b] \in {"prefix", "coinType"}
  /\ sdk.sealed
  /\ process' = "panicked"
  /\ UNCHANGED <<overlap, sdk, stage, conn, key, address>>

\* The setters write a map without a lock: the runtime may stop a process in
\* which two goroutines do so at a time.
MapRace ==
  /\ process = "runs"
  /\ \E a, b \in Builders : a # b /\ stage[a] = "prefix" /\ stage[b] = "prefix"
  /\ process' = "panicked"
  /\ UNCHANGED <<overlap, sdk, stage, conn, key, address>>

\* Mutant of SetPrefix: a sealed configuration is taken as it is.
ConfigureOnce(b) ==
  /\ \/ /\ Move(b, "prefix", "coinType")
        /\ ~ sdk.sealed
        /\ sdk' = [sdk EXCEPT !.prefix = Conf[b].prefix]
     \/ Move(b, "prefix", "dial") /\ sdk.sealed /\ UNCHANGED sdk
  /\ UNCHANGED <<overlap, process, conn, key, address>>

SetPrefix(b) ==
  /\ Move(b, "prefix", "coinType")
  /\ ~ sdk.sealed
  /\ sdk' = [sdk EXCEPT !.prefix = Conf[b].prefix]
  /\ UNCHANGED <<overlap, process, conn, key, address>>

SetCoinType(b) ==
  /\ Move(b, "coinType", "seal")
  /\ ~ sdk.sealed
  /\ sdk' = [sdk EXCEPT !.coinType = Conf[b].coinType]
  /\ UNCHANGED <<overlap, process, conn, key, address>>

\* Mutant of Seal: the configuration stays open.
SealForgotten(b) ==
  /\ Move(b, "seal", "dial")
  /\ UNCHANGED <<overlap, sdk, process, conn, key, address>>

Seal(b) ==
  /\ Move(b, "seal", "dial")
  /\ sdk' = [sdk EXCEPT !.sealed = TRUE]
  /\ UNCHANGED <<overlap, process, conn, key, address>>

\* Mutant of Dial: the error of NewGRPCConnection is not looked at.
DialIgnoresError(b) ==
  /\ Move(b, "dial", IF b \in Signers THEN "mnemonic" ELSE "ready")
  /\ \/ conn' = [conn EXCEPT ![b] = "open"]
     \/ UNCHANGED conn
  /\ UNCHANGED <<overlap, sdk, process, key, address>>

\* NewGRPCConnection.
Dial(b) ==
  /\ \/ /\ Move(b, "dial", IF b \in Signers THEN "mnemonic" ELSE "ready")
        /\ conn' = [conn EXCEPT ![b] = "open"]
     \/ Move(b, "dial", "failed") /\ UNCHANGED conn
  /\ UNCHANGED <<overlap, sdk, process, key, address>>

--------------------------------------------------------------------------------
(* The identity of a signing client.  An error return leaves the            *)
(* connection as it is.                                                     *)

\* ReadMnemonic and PrivKeyFromMnemonic, or an error of either.
DeriveKey(b) ==
  /\ \/ /\ Move(b, "mnemonic", "address")
        /\ key' = [key EXCEPT ![b] = Conf[b].coinType]
     \/ Move(b, "mnemonic", "failed") /\ UNCHANGED key
  /\ UNCHANGED <<overlap, sdk, process, conn, address>>

\* AccAddress.String takes the prefix of the SDK configuration.
RenderAddress(b) ==
  /\ Move(b, "address", "account")
  /\ address' = [address EXCEPT ![b] = [key |-> key[b], prefix |-> sdk.prefix]]
  /\ UNCHANGED <<overlap, sdk, process, conn, key>>

\* ResetSequence gets AuthClient and asks for the account; then the worker pool.
FirstReset(b) ==
  /\ b = Shared => pc[Opener] = "idle" /\ field[Auth] # 0
  /\ \E to \in {"ready", "failed"} : Move(b, "account", to)
  /\ UNCHANGED <<overlap, sdk, process, conn, key, address>>

Close(b) ==
  /\ Move(b, "ready", "closed")
  /\ conn' = [conn EXCEPT ![b] = "closed"]
  /\ UNCHANGED <<overlap, sdk, process, key, address>>

\* A user asks for a query client, also after Close.
Ask(u, k) ==
  /\ \/ stage[Shared] \in {"ready", "closed"}
     \/ stage[Shared] = "account" /\ u = Opener /\ k = Auth /\ field[Auth] = 0
  /\ Call(u, k)

Query(u) ==
  /\ process = "runs"
  /\ Get(u) \/ \E k \in Kinds : Ask(u, k)
  /\ UNCHANGED setupVars

\* The process is over, or every construction is.
Over ==
  /\ process = "panicked" \/ \A b \in Builders : stage[b] \in {"failed", "closed"}
  /\ UNCHANGED allVars

Construct(b) ==
  \/ Begin(b)
  \/ Panic(b) \/ SetPrefix(b) \/ SetCoinType(b) \/ Seal(b) \/ Dial(b)
  \/ DeriveKey(b) \/ RenderAddress(b) \/ FirstReset(b)
  \/ Close(b)

SetupNext ==
  \/ (MapRace \/ \E b \in Builders : Construct(b)) /\ UNCHANGED queryVars
  \/ \E u \in Users : Query(u)
  \/ Over

SetupSpec == SetupInit /\ [][SetupNext]_allVars

--------------------------------------------------------------------------------
\* The type invariant.
SetupTypeOK ==
  /\ QueryTypeOK
  /\ overlap \in BOOLEAN
  /\ sdk \in [prefix : Prefixes, coinType : Nat, sealed : BOOLEAN]
  /\ process \in {"runs", "panicked"}
  /\ stage \in [Builders -> Configuring \cup Configured]
  /\ conn \in [Builders -> {"none", "open", "closed"}]
  /\ key \in [Builders -> Nat]
  /\ address \in [Builders -> [key : Nat, prefix : Prefixes]]
  /\ \A b \in Builders :
       /\ stage[b] \in {"mnemonic", "address", "account", "ready"} => conn[b] = "open"
       /\ stage[b] = "closed" => conn[b] = "closed"

\* The addresses of all clients of a process show the prefix the SDK still
\* uses to read addresses: it does not change under a client that is ready
\* (Seal), however many constructions of different networks run.
AddressesReadBack ==
  \A b \in Signers :
    stage[b] \in {"account", "ready"} => address[b].prefix = sdk.prefix

\* A client whose construction nobody else's overlaps signs as its own
\* configuration says: its key is of that coin type, its address of that
\* prefix, whatever constructions failed before it.
SignsAsConfigured ==
  \A b \in Signers :
    ~overlap /\ stage[b] \in {"ready", "closed"} =>
      address[b] = [key |-> Conf[b].coinType, prefix |-> Conf[b].prefix]

\* Past Seal the configuration stays; an address shows it, and its builder's key.
Identities ==
  /\ \A b \in Builders : stage[b] \in Configured => sdk.sealed
  /\ \A b \in Signers :
       /\ stage[b] \in {"address", "account", "ready", "closed"} => key[b] = Conf[b].coinType
       /\ stage[b] \in {"account", "ready", "closed"} =>
            address[b] = [key |-> key[b], prefix |-> sdk.prefix]

\* Without overlap the prefix is the one of every client past SetPrefix, since a
\* second configuration panics.
OneAtATime ==
  ~overlap =>
    /\ \A a, b \in Busy : a = b
    /\ \A b \in Builders : stage[b] \notin {"idle", "prefix"} => sdk.prefix = Conf[b].prefix

\* The inductive invariant behind AddressesReadBack and SignsAsConfigured.
SetupInv == SetupTypeOK /\ Identities /\ OneAtATime
================================================================================
