------------------------- MODULE AccountCredentials -------------------------
(***************************************************************************)
(* How a pass becomes a client of the NATS account its CR names           *)
(* (natsConfigFromOpts in jetstream_controller.go, NatsConfig.Hash in     *)
(* client.go, connectionPool.Get): it reads the Account CR, then, under a *)
(* lock, the secret that CR names, brings the credentials file of the     *)
(* account up to date, and asks the pool for a connection under a hash of *)
(* the file.  The file is read after the lock is let go, once for the     *)
(* hash, once by the client that connects and again by one that           *)
(* reconnects, while other controllers may write it.  A secret without the *)
(* key the Account names adds nothing to the overlay: the pass goes on as *)
(* the controller itself.                                                  *)
(*                                                                         *)
(* Root certificates, client certificates and keys, credentials and nkeys *)
(* are brought up to date one after the other in the same way: `file'     *)
(* stands for any one of them.                                             *)
(*                                                                         *)
(* ConnectionPool has the pool's reference counts; here an entry that no  *)
(* pass uses may lapse.                                                    *)
(***************************************************************************)
EXTENDS Naturals

CONSTANTS
    Workers,   \* controllers, one pass at a time each
    Secrets,   \* secrets an Account may name
    Ids,       \* what a credentials file makes of its reader
    Own,       \* the controller's own credentials
    Torn,      \* what is in a file that is being written
    None,
    MaxEdits,  \* bound: Accounts pointed elsewhere and secrets rotated
    MaxFaults  \* bound: secrets that cannot be read, writes that fail,
               \* connections that reconnect

ASSUME CredentialsAssumption ==
    /\ Secrets # {} /\ Ids # {} /\ Workers # {}
    /\ {Own, Torn, None} \cap Ids = {}
    /\ Own # Torn /\ Torn # None /\ None # Own
    /\ None \notin Workers
    /\ MaxEdits \in Nat /\ MaxFaults \in Nat

VARIABLES
    account,   \* the secret the Account names
    content,   \* what each secret holds under that key, Own if nothing
    file,      \* the account's credentials file in the cache directory
    lock,      \* cacheLock
    pc, seen, data, key, \* each pass: next step, secret named, data read, hash
    pool,      \* whom the connection pooled under a hash acts as
    edits, faults,
    raced,     \* an edit happened while a pass was on its way to Get
    reread     \* a client reconnected when its file was no more what was hashed

envVars == <<account, content, edits, raced>>
vars == <<envVars, file, lock, pc, seen, data, key, pool, faults, reread>>

Named == Ids \cup {Own}
Keys == Named \cup {Torn}

Init ==
    /\ account \in Secrets /\ content \in [Secrets -> Named]
    /\ file = None /\ lock = None
    /\ pc = [w \in Workers |-> "idle"]
    /\ seen = [w \in Workers |-> None]
    /\ data = [w \in Workers |-> None] /\ key = [w \in Workers |-> None]
    /\ pool = [k \in Keys |-> None]
    /\ edits = MaxEdits /\ faults = MaxFaults
    /\ raced = FALSE /\ reread = FALSE

\* The pass is over and forgets what it read.
Over(w) ==
    /\ pc' = [pc EXCEPT ![w] = "idle"]
    /\ data' = [data EXCEPT ![w] = None] /\ key' = [key EXCEPT ![w] = None]

Step(w, from, to) == pc[w] = from /\ pc' = [pc EXCEPT ![w] = to]
-----------------------------------------------------------------------------
(* natsConfigFromOpts. *)

\* The Account is read before the lock is taken.
ReadAccount(w) ==
    /\ Step(w, "idle", "locking")
    /\ seen' = [seen EXCEPT ![w] = account]
    /\ UNCHANGED <<envVars, file, lock, data, key, pool, faults, reread>>

\* Mutant: the lock is not asked for.
MayEnterAlways == TRUE

MayEnter == lock = None

Enter(w) ==
    /\ MayEnter /\ Step(w, "locking", "compare")
    /\ lock' = w
    /\ data' = [data EXCEPT ![w] = content[seen[w]]]
    /\ seen' = [seen EXCEPT ![w] = None]
    /\ UNCHANGED <<envVars, file, key, pool, faults, reread>>

\* The secret cannot be read, or the directory not made.
Refuse(w) ==
    /\ MayEnter /\ pc[w] = "locking" /\ Over(w)
    /\ faults > 0 /\ faults' = faults - 1
    /\ seen' = [seen EXCEPT ![w] = None]
    /\ UNCHANGED <<envVars, file, lock, pool, reread>>

\* Mutant: a file that is there is not written again.
UpToDateIfThere(w) == file # None

UpToDate(w) == data[w] \in {file, Own}

SkipWrite(w) ==
    /\ UpToDate(w) /\ Step(w, "compare", "get")
    /\ lock' = None
    /\ UNCHANGED <<envVars, file, seen, data, key, pool, faults, reread>>

\* os.WriteFile truncates, then writes.
Truncate(w) ==
    /\ ~UpToDate(w) /\ Step(w, "compare", "write")
    /\ file' = Torn
    /\ UNCHANGED <<envVars, lock, seen, data, key, pool, faults, reread>>

WriteFile(w) ==
    /\ Step(w, "write", "get")
    /\ file' = data[w] /\ lock' = None
    /\ UNCHANGED <<envVars, seen, data, key, pool, faults, reread>>

\* The disk is full, say: what was written so far stays.
WriteFails(w) ==
    /\ pc[w] = "write" /\ Over(w)
    /\ faults > 0 /\ faults' = faults - 1
    /\ lock' = None
    /\ UNCHANGED <<envVars, file, seen, pool, reread>>
-----------------------------------------------------------------------------
(* connectionPool.Get, under the pool's mutex. *)

PoolFree == \A w \in Workers : pc[w] # "connect"

\* Mutant: the hash is made of the file's name.
HashOfName(w) == IF data[w] = Own THEN Own ELSE CHOOSE i \in Ids : TRUE

\* The hash is made of what the files hold that the configuration names.
Hash(w) == IF data[w] = Own THEN Own ELSE file

Get(w) ==
    /\ PoolFree /\ pc[w] = "get"
    /\ pc' = [pc EXCEPT ![w] = IF pool[Hash(w)] # None THEN "use" ELSE "connect"]
    /\ key' = [key EXCEPT ![w] = Hash(w)]
    /\ UNCHANGED <<envVars, file, lock, seen, data, pool, faults, reread>>

\* Mutant: the client makes do with what a torn file gives.
ReadableAlways(w) == TRUE

Readable(w) == Hash(w) # Torn

\* createNatsConn: the client reads the file for itself.
Connect(w) ==
    /\ pc[w] = "connect"
    /\ \/ ~Readable(w) /\ Over(w) /\ UNCHANGED pool
       \/ /\ Readable(w) /\ pc' = [pc EXCEPT ![w] = "use"]
          /\ pool' = [pool EXCEPT ![key[w]] = Hash(w)]
          /\ UNCHANGED <<data, key>>
    /\ UNCHANGED <<envVars, file, lock, seen, faults, reread>>

Finish(w) ==
    /\ pc[w] = "use" /\ Over(w)
    /\ UNCHANGED <<envVars, file, lock, seen, pool, faults, reread>>

\* The grace period of an entry that no pass uses is over.
Lapse(k) ==
    /\ pool[k] # None
    /\ \A w \in Workers : ~(pc[w] = "use" /\ key[w] = k)
    /\ pool' = [pool EXCEPT ![k] = None]
    /\ UNCHANGED <<envVars, file, lock, pc, seen, data, key, faults, reread>>

\* UserCredentials reads its file at every attempt to connect.
Reconnect(k) ==
    /\ faults > 0 /\ pool[k] \in Ids /\ file # Torn
    /\ pool' = [pool EXCEPT ![k] = file]
    /\ faults' = faults - 1
    /\ reread' = (reread \/ file # k)
    /\ UNCHANGED <<envVars, file, lock, pc, seen, data, key>>
-----------------------------------------------------------------------------
(* Users point the Account to another secret, or rotate a secret. *)

InFlight(w) == pc[w] \notin {"idle", "use"}

Edit ==
    /\ edits > 0 /\ edits' = edits - 1
    /\ raced' = (raced \/ \E w \in Workers : InFlight(w))
    /\ UNCHANGED <<file, lock, pc, seen, data, key, pool, faults, reread>>

Repoint == Edit /\ account' \in Secrets \ {account} /\ UNCHANGED content

Rotate ==
    /\ Edit
    /\ \E s \in Secrets : \E i \in Named \ {content[s]} :
           content' = [content EXCEPT ![s] = i]
    /\ UNCHANGED account
-----------------------------------------------------------------------------
Pass(w) ==
    \/ ReadAccount(w) \/ Enter(w) \/ Refuse(w)
    \/ SkipWrite(w) \/ Truncate(w) \/ WriteFile(w) \/ WriteFails(w)
    \/ Get(w) \/ Connect(w) \/ Finish(w)

Next ==
    \/ \E w \in Workers : Pass(w)
    \/ \E k \in DOMAIN pool : Lapse(k) \/ Reconnect(k)
    \/ Repoint \/ Rotate

\* Controllers run; one that waits for a mutex for ever does no harm here.  A
\* grace period ends at a time that has nothing to do with the passes.
Fairness ==
    /\ \A w \in Workers : WF_vars(Pass(w))
    /\ \A k \in Keys : SF_vars(Lapse(k))

Spec == Init /\ [][Next]_vars /\ Fairness
-----------------------------------------------------------------------------
(* Properties. *)

CredentialsTypeOK ==
    /\ account \in Secrets /\ content \in [Secrets -> Named]
    /\ file \in Ids \cup {Torn, None} /\ lock \in Workers \cup {None}
    /\ pc \in [Workers -> {"idle", "locking", "compare", "write", "get",
                           "connect", "use"}]
    /\ seen \in [Workers -> Secrets \cup {None}]
    /\ data \in [Workers -> Named \cup {None}]
    /\ key \in [Workers -> Keys \cup {None}]
    /\ pool \in [Keys -> Named \cup {None}]
    /\ {edits, faults} \subseteq Nat /\ {raced, reread} \subseteq BOOLEAN

\* From the comparison to the end of the write a pass has the credentials file
\* for itself: it holds the lock, and nobody completes the file it truncated.
OneWriter ==
    \A w \in Workers :
        /\ pc[w] \in {"compare", "write"} => lock = w
        /\ pc[w] = "write" => file = Torn

ActsAs(w) == pool[key[w]]

\* A pass acts as the account it read the credentials of, also when the
\* Account or its secret changes while it or an earlier pass uses its
\* connection.  In particular it acts as the controller itself only when the
\* secret lacked the key.  It may be another one only after an edit met
\* a pass on its way to a connection, or after a client reconnected with a file
\* changed since.
ActsAsNamed ==
    \A w \in Workers : pc[w] = "use" => ActsAs(w) = data[w] \/ raced \/ reread

\* Once edits stop, whatever raced before, passes act as what the Account now
\* leads to, if the connections are left alone from time to time.
SettlesOnAccount ==
    ([]<>(\A w \in Workers : pc[w] # "use"))
        => <>[](\A w \in Workers : pc[w] = "use" => ActsAs(w) = content[account])
=============================================================================
