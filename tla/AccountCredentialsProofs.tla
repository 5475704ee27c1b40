---------------------- MODULE AccountCredentialsProofs ----------------------
(***************************************************************************)
(* Who a pass acts as, for any number of controllers, secrets and           *)
(* identities and any number of edits and faults.                           *)
(***************************************************************************)
EXTENDS AccountCredentials, TLAPS

\* What a pass has read and hashed by the time it goes on with it; a file it
\* found or wrote exists from then on.
PassTyped ==
    \A w \in Workers :
        /\ pc[w] = "locking" => seen[w] \in Secrets
        /\ pc[w] \in {"compare", "write", "get", "connect", "use"} => data[w] \in Named
        /\ pc[w] = "write" => data[w] # Own
        /\ pc[w] \in {"get", "connect"} /\ data[w] # Own => file # None
        /\ pc[w] \in {"connect", "use"} => key[w] \in Keys

TypeInv == CredentialsTypeOK /\ PassTyped

\* A controller starts well-typed.
LEMMA InitType == Init => TypeInv
  BY CredentialsAssumption DEF Init, TypeInv, CredentialsTypeOK, PassTyped, Named, Keys

\* Every step keeps the state well-typed: one case per action of Next.
LEMMA NextType == TypeInv /\ [Next]_vars => TypeInv'
  <1> SUFFICES ASSUME TypeInv, [Next]_vars PROVE TypeInv'
    OBVIOUS
  <1> USE CredentialsAssumption
      DEF TypeInv, CredentialsTypeOK, PassTyped, Named, Keys, envVars
  <1>1. ASSUME NEW w \in Workers, Pass(w) PROVE TypeInv'
    <2>1. CASE ReadAccount(w)
      BY <2>1 DEF ReadAccount, Step
    <2>2. CASE Enter(w)
      BY <2>2 DEF Enter, Step
    <2>3. CASE Refuse(w)
      BY <2>3 DEF Refuse, Over
    <2>4. CASE SkipWrite(w)
      BY <2>4 DEF SkipWrite, Step, UpToDate
    <2>5. CASE Truncate(w)
      BY <2>5 DEF Truncate, Step, UpToDate
    <2>6. CASE WriteFile(w)
      BY <2>6 DEF WriteFile, Step
    <2>7. CASE WriteFails(w)
      BY <2>7 DEF WriteFails, Over
    <2>8. CASE Get(w)
      BY <2>8 DEF Get, Hash
    <2>9. CASE Connect(w)
      <3>1. CASE ~Readable(w)
        BY <2>9, <3>1 DEF Connect, Over
      <3>2. CASE Readable(w)
        <4>1. pc[w] = "connect" /\ data[w] \in Named /\ key[w] \in Keys
          BY <2>9 DEF Connect
        <4>2. Hash(w) \in Named
          BY <4>1, <3>2 DEF Hash, Readable
        <4>3. /\ pc' = [pc EXCEPT ![w] = "use"]
              /\ pool' = [pool EXCEPT ![key[w]] = Hash(w)]
              /\ UNCHANGED <<envVars, file, lock, seen, data, key, faults, reread>>
          BY <2>9, <3>2 DEF Connect
        <4>4. pool' \in [Keys -> Named \cup {None}]
          BY <4>1, <4>2, <4>3
        <4> HIDE DEF Named, Keys
        <4>5. CredentialsTypeOK'
          BY <4>3, <4>4
        <4>6. PassTyped'
          BY <4>1, <4>3
        <4> QED
          BY <4>5, <4>6
      <3> QED
        BY <3>1, <3>2
    <2>10. CASE Finish(w)
      BY <2>10 DEF Finish, Over
    <2> QED
      BY <1>1, <2>1, <2>2, <2>3, <2>4, <2>5, <2>6, <2>7, <2>8, <2>9, <2>10 DEF Pass
  <1>2. ASSUME NEW k \in DOMAIN pool, Lapse(k) \/ Reconnect(k) PROVE TypeInv'
    <2>1. CASE Lapse(k)
      BY <2>1 DEF Lapse
    <2>2. CASE Reconnect(k)
      <3>1. file \in Named \cup {None}
        BY <2>2 DEF Reconnect
      <3>2. pool' \in [Keys -> Named \cup {None}] /\ faults' \in Nat
        BY <2>2, <3>1 DEF Reconnect
      <3>3. reread' \in BOOLEAN
        BY <2>2 DEF Reconnect
      <3> HIDE DEF Named, Keys
      <3> QED
        BY <2>2, <3>2, <3>3 DEF Reconnect
    <2> QED
      BY <1>2, <2>1, <2>2
  <1>3. CASE Repoint
    BY <1>3 DEF Repoint, Edit
  <1>4. CASE Rotate
    BY <1>4 DEF Rotate, Edit
  <1>5. CASE UNCHANGED vars
    BY <1>5 DEF vars
  <1> QED
    BY <1>1, <1>2, <1>3, <1>4, <1>5 DEF Next

\* Every reachable state is well-typed: in particular no connection is ever
\* made with a file that is missing or half written.
THEOREM CredentialsTyped == Spec => []CredentialsTypeOK
  <1>1. TypeInv => CredentialsTypeOK
    BY DEF TypeInv
  <1> QED
    BY <1>1, InitType, NextType, PTL DEF Spec

\* The typing the other proofs rest on.
LEMMA TypeInvariant == Spec => []TypeInv
  BY InitType, NextType, PTL DEF Spec
-----------------------------------------------------------------------------
\* Only the holder of the lock compares and writes, one case per action.
LEMMA NextOneWriter == TypeInv /\ OneWriter /\ [Next]_vars => OneWriter'
  <1> SUFFICES ASSUME TypeInv, OneWriter, [Next]_vars PROVE OneWriter'
    OBVIOUS
  <1> USE CredentialsAssumption DEF TypeInv, CredentialsTypeOK, OneWriter, envVars
  <1>1. ASSUME NEW w \in Workers, Pass(w) PROVE OneWriter'
    <2>1. CASE ReadAccount(w) \/ Get(w) \/ Finish(w)
      BY <2>1 DEF ReadAccount, Get, Finish, Step, Over
    <2>2. CASE Enter(w)
      BY <2>2 DEF Enter, MayEnter, Step
    <2>3. CASE Refuse(w)
      BY <2>3 DEF Refuse, Over
    <2>4. CASE SkipWrite(w)
      BY <2>4 DEF SkipWrite, Step
    <2>5. CASE Truncate(w)
      BY <2>5 DEF Truncate, Step
    <2>6. CASE WriteFile(w)
      BY <2>6 DEF WriteFile, Step
    <2>7. CASE WriteFails(w)
      BY <2>7 DEF WriteFails, Over
    <2>8. CASE Connect(w)
      BY <2>8 DEF Connect, Over
    <2> QED
      BY <1>1, <2>1, <2>2, <2>3, <2>4, <2>5, <2>6, <2>7, <2>8 DEF Pass
  <1>2. ASSUME NEW k \in DOMAIN pool, Lapse(k) \/ Reconnect(k) PROVE OneWriter'
    BY <1>2 DEF Lapse, Reconnect
  <1>3. CASE Repoint \/ Rotate
    BY <1>3 DEF Repoint, Rotate, Edit
  <1>4. CASE UNCHANGED vars
    BY <1>4 DEF vars
  <1> QED
    BY <1>1, <1>2, <1>3, <1>4 DEF Next

\* The credentials file has one writer at a time, from the comparison to the
\* end of the write.
THEOREM WriterAlone == Spec => []OneWriter
  <1>1. Init => OneWriter
    BY DEF Init, OneWriter
  <1> QED
    BY <1>1, NextOneWriter, TypeInvariant, PTL DEF Spec
-----------------------------------------------------------------------------
(* Who a pass acts as. *)

\* As long as no edit met a pass on its way and no client read a changed file,
\* what a pass named, read, wrote and hashed is still what it finds.
InStep ==
    \A w \in Workers :
        /\ pc[w] = "locking" => seen[w] = account
        /\ pc[w] \in {"compare", "write", "get", "connect"} =>
               data[w] = content[account]
        /\ pc[w] \in {"get", "connect"} /\ data[w] # Own => file = data[w]
        /\ pc[w] \in {"connect", "use"} => key[w] = data[w]

\* A connection acts as what its hash was made of, and is there while used.
PoolMatches ==
    /\ \A k \in Keys : pool[k] \in {None, k}
    /\ \A w \in Workers : pc[w] = "use" => pool[key[w]] # None

Undisturbed == ~raced /\ ~reread

ActsInv == OneWriter /\ (Undisturbed => InStep /\ PoolMatches)

\* The invariant gives the property.
LEMMA ActsInvActs == TypeInv /\ ActsInv => ActsAsNamed
  BY DEF TypeInv, CredentialsTypeOK, PassTyped, ActsInv, Undisturbed, InStep,
         PoolMatches, ActsAsNamed, ActsAs

\* The invariant is inductive, one case per action: only an edit or a reconnect
\* can disturb it, and both are remembered.
LEMMA NextActs == TypeInv /\ ActsInv /\ [Next]_vars => ActsInv'
  <1> SUFFICES ASSUME TypeInv, ActsInv, [Next]_vars, Undisturbed'
               PROVE InStep' /\ PoolMatches'
    BY NextOneWriter DEF ActsInv
  <1> USE CredentialsAssumption DEF CredentialsTypeOK, PassTyped, Named, Keys, envVars
  <1>0. CredentialsTypeOK /\ PassTyped /\ OneWriter
    BY DEF TypeInv, ActsInv
  <1>1. ASSUME NEW w \in Workers, Pass(w) PROVE InStep' /\ PoolMatches'
    <2>1. InStep /\ PoolMatches
      BY <1>1 DEF ActsInv, Undisturbed, Pass, ReadAccount, Enter, Refuse, SkipWrite,
                  Truncate, WriteFile, WriteFails, Get, Connect, Finish
    <2> USE DEF InStep, PoolMatches, OneWriter
    <2>2. CASE ReadAccount(w)
      BY <1>0, <2>1, <2>2 DEF ReadAccount, Step
    <2>3. CASE Enter(w)
      BY <1>0, <2>1, <2>3 DEF Enter, Step
    <2>4. CASE Refuse(w) \/ WriteFails(w) \/ Finish(w)
      BY <1>0, <2>1, <2>4 DEF Refuse, WriteFails, Finish, Over
    <2>5. CASE SkipWrite(w)
      BY <1>0, <2>1, <2>5 DEF SkipWrite, Step, UpToDate
    <2>6. CASE Truncate(w)
      BY <1>0, <2>1, <2>6 DEF Truncate, Step, UpToDate
    <2>7. CASE WriteFile(w)
      BY <1>0, <2>1, <2>7 DEF WriteFile, Step
    <2>8. CASE Get(w)
      BY <1>0, <2>1, <2>8 DEF Get, Hash
    <2>9. CASE Connect(w)
      BY <1>0, <2>1, <2>9 DEF Connect, Hash, Over
    <2> QED
      BY <1>1, <2>2, <2>3, <2>4, <2>5, <2>6, <2>7, <2>8, <2>9 DEF Pass
  <1>2. ASSUME NEW k \in DOMAIN pool, Lapse(k) PROVE InStep' /\ PoolMatches'
    BY <1>0, <1>2 DEF ActsInv, Undisturbed, Lapse, InStep, PoolMatches
  <1>3. ASSUME NEW k \in DOMAIN pool, Reconnect(k) PROVE InStep' /\ PoolMatches'
    BY <1>0, <1>3 DEF ActsInv, Undisturbed, Reconnect, InStep, PoolMatches
  <1>4. CASE Repoint \/ Rotate
    BY <1>0, <1>4 DEF ActsInv, Undisturbed, Repoint, Rotate, Edit, InFlight, InStep, PoolMatches
  <1>5. CASE UNCHANGED vars
    BY <1>5 DEF vars, ActsInv, Undisturbed, InStep, PoolMatches
  <1> QED
    BY <1>1, <1>2, <1>3, <1>4, <1>5 DEF Next

\* A pass acts as the account whose credentials it read, unless an edit met a
\* pass on its way to a connection or a client reconnected with a changed file.
THEOREM ActsAsItsAccount == Spec => []ActsAsNamed
  <1>1. Init => ActsInv
    BY CredentialsAssumption
       DEF Init, ActsInv, OneWriter, InStep, PoolMatches, Undisturbed, Keys, Named
  <1> QED
    BY <1>1, NextActs, ActsInvActs, TypeInvariant, PTL DEF Spec
=============================================================================
