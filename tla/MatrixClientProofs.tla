------------------------- MODULE MatrixClientProofs -------------------------
(***************************************************************************)
(* Theorems about MatrixClient for any devices, configurations, crypto     *)
(* stores, failures, kills and restarts.                                   *)
(***************************************************************************)
EXTENDS MatrixClient, TLAPS

(***************************************************************************)
(* The inductive invariant.                                                *)
(***************************************************************************)
Running == pc \notin {"down", "refused"}

\* What the operator may give, and the type of what the argument counts.
SetupType ==
  /\ file \in Files(DeviceIds) /\ env \in Envs(DeviceIds)
  /\ wipes \in Nat /\ suffix \in Nat

\* A running process has loaded the file, and validate accepted it.
Loaded == Running => config = Overridden(file, env) /\ Valid(config)

\* From the login on, the store holds the keys of the session's device, which
\* is the pinned one.
SessionKeys ==
  pc \in {"whoami", "sync", "sync_unverified", "connected", "connected_unverified"} =>
    /\ session # {} /\ account = session
    /\ Pin # {} => session = Pin

\* Past whoami the homeserver has confirmed the device, unless it did not say.
Confirmed == pc \in {"sync", "connected"} => ServerDevice = session

\* A store is only reset while it is another device's.
ResetOthersOnly == pc = "reset" /\ account # {} => account # Pin

\* The device the file pins.
PinnedByFile == Overridden(file, env).device_id

\* Once a reset has taken place, the store is empty or the pinned device's.
WipedForPin ==
  /\ PinnedByFile # {} /\ wipes > 0 => account \in {{}, PinnedByFile} /\ wipes = 1
  /\ PinnedByFile # {} /\ pc = "reset" /\ suffix = 0 => wipes = 0

ClientInv ==
  /\ SetupType /\ Loaded /\ SessionKeys /\ Confirmed /\ ResetOthersOnly /\ WipedForPin
  /\ NoLateConfigError

\* A configured device is one device (Option<String>).
LEMMA PinIsOne ==
  ASSUME SetupType
  PROVE  \A d \in PinnedByFile : PinnedByFile = {d}
<1>1. file.device_id \in Options({Ref, Blank} \cup DeviceIds)
  BY DEF SetupType, Files
<1>2. env.device_id \in Options({Blank} \cup DeviceIds)
  BY DEF SetupType, Envs
<1>3. PinnedByFile = IF file.device_id = {Ref} THEN env.device_id ELSE file.device_id
  BY DEF SetupType, Files, Overridden, PinnedByFile
<1> QED
  BY <1>1, <1>2, <1>3 DEF Options

\* The database comes first, then its two sidecars (reset_crypto_store).
LEMMA SuffixesLemma == Len(Suffixes) = 3 /\ Suffixes[1] = "" /\ Suffixes[2] # "" /\ Suffixes[3] # ""
BY DEF Suffixes

\* What validate accepts, bind_smtp and connect do not refuse (validate).
LEMMA ValidIsEnough ==
  ASSUME NEW d, Valid(d)
  PROVE  /\ "bind" \notin d.wrong
         /\ d.wrong \cap {"homeserver", "user_id", "rooms"} = {}
         /\ d.access_token # {} => d.device_id # {}
         /\ d.access_token = {} => d.password # {}
BY DEF Valid, Validated, Fields, CredentialsValid

-----------------------------------------------------------------------------
\* The first start (main).
LEMMA InitClientInv == Init => ClientInv
<1> SUFFICES ASSUME Init PROVE ClientInv
  OBVIOUS
<1>1. SetupType
  BY ClientAssumption DEF Init, SetupType
<1>2. Loaded /\ SessionKeys /\ Confirmed /\ ResetOthersOnly
  BY DEF Init, Loaded, SessionKeys, Confirmed, ResetOthersOnly, Running
<1>3. WipedForPin /\ NoLateConfigError
  BY DEF Init, WipedForPin, NoLateConfigError
<1> QED
  BY <1>1, <1>2, <1>3 DEF ClientInv

-----------------------------------------------------------------------------
(***************************************************************************)
(* One lemma per kind of step.                                             *)
(***************************************************************************)
KeysKept == account # {} /\ account = Pin /\ Running => account' = account

\* In a running process the pinned device is the file's, and one device.
LEMMA PinFacts ==
  ASSUME ClientInv, Running
  PROVE  Pin = PinnedByFile /\ \A d \in Pin : Pin = {d}
BY PinIsOne DEF ClientInv, Loaded, Pin, PinnedByFile

\* The crypto store is opened for a device (build_client, restore_session).
LEMMA OpensStep ==
  ASSUME ClientInv, NEW device, Opens(device), pc = "auth",
         Pin # {} => Pin = {device},
         UNCHANGED <<setup, config, history>>
  PROVE  ClientInv' /\ KeysKept
<1> USE DEF Goto, Fault
<1>1. file' = file /\ env' = env /\ config' = config /\ wipes' = wipes /\ lateError' = lateError
  BY DEF setup, history
<1>2. Pin' = Pin /\ PinnedByFile' = PinnedByFile /\ Running
  BY <1>1 DEF Pin, PinnedByFile, Overridden, Running
<1>3. Pin = PinnedByFile
  BY <1>2, PinFacts
<1>4. /\ pc' \in {"whoami", "backoff", "reset"}
      /\ pc' = "whoami" => account' = {device} /\ session' = {device}
      /\ pc' = "reset" => suffix' = 0 /\ account' = account /\ account \notin {{}, {device}}
      /\ account' # account => account' = {device} /\ account = {}
      /\ suffix' = suffix \/ suffix' = 0
  BY DEF Opens
<1>5. SetupType' /\ NoLateConfigError'
  BY <1>1, <1>4 DEF ClientInv, SetupType, NoLateConfigError
<1>6. Loaded'
  BY <1>1, <1>2, <1>4 DEF ClientInv, Loaded, Running, Overridden, Valid, CredentialsValid
<1>7. SessionKeys' /\ Confirmed' /\ ResetOthersOnly'
  BY <1>2, <1>4 DEF SessionKeys, Confirmed, ResetOthersOnly
<1>8. WipedForPin'
  <2>1. ASSUME PinnedByFile # {}, wipes > 0 PROVE account' \in {{}, PinnedByFile} /\ wipes = 1
    BY <1>3, <1>4, <2>1 DEF ClientInv, WipedForPin
  <2>2. ASSUME PinnedByFile # {}, pc' = "reset" PROVE wipes = 0
    BY <1>3, <1>4, <2>2 DEF ClientInv, WipedForPin, SetupType
  <2> QED
    BY <1>1, <1>2, <2>1, <2>2 DEF WipedForPin
<1>9. KeysKept
  BY <1>4 DEF KeysKept
<1> QED
  BY <1>5, <1>6, <1>7, <1>8, <1>9 DEF ClientInv

\* Both logins (connect).
LEMMA LoginStep ==
  ASSUME ClientInv, Restore \/ Login
  PROVE  ClientInv' /\ KeysKept
<1>1. pc = "auth" /\ UNCHANGED <<setup, config, history>> /\ Running
  BY DEF Restore, Login, Running
<1>2. \E d : Opens(d) /\ (Pin # {} => d \in Pin)
  BY DEF Restore, Login
<1>3. PICK d : Opens(d) /\ (Pin # {} => d \in Pin)
  BY <1>2
<1>4. Pin # {} => Pin = {d}
  BY <1>1, <1>3, PinFacts
<1> QED
  BY <1>1, <1>3, <1>4, OpensStep

\* Config::load_default (main).
LEMMA LoadStep ==
  ASSUME ClientInv, Load
  PROVE  ClientInv' /\ KeysKept
<1>1. /\ pc = "down" /\ pc' \in {"bind", "refused"}
      /\ file' = file /\ env' = env /\ wipes' = wipes /\ lateError' = lateError
      /\ account' = account /\ suffix' = suffix
      /\ pc' = "bind" => config' = Overridden(file, env) /\ Valid(config')
  BY DEF Load, Goto, setup, history, disk
<1>2. PinnedByFile' = PinnedByFile /\ Overridden(file, env)' = Overridden(file, env)
  BY <1>1 DEF PinnedByFile, Overridden
<1>3. Valid(config)' = Valid(config')
  BY DEF Valid, CredentialsValid
<1>4. Loaded'
  BY <1>1, <1>2, <1>3 DEF Loaded, Running
<1> QED
  BY <1>1, <1>2, <1>4 DEF ClientInv, SetupType, SessionKeys, Confirmed, ResetOthersOnly, WipedForPin,
                          NoLateConfigError, KeysKept, Running

\* A step that leaves the configuration, the store and the counts alone.
LEMMA Frame ==
  ASSUME ClientInv,
         file' = file, env' = env, config' = config, tokenDevice' = tokenDevice, wipes' = wipes,
         lateError' = lateError, account' = account, suffix' = suffix,
         pc' \in {"down", "refused"} \/ Running,
         SessionKeys', Confirmed', pc' = "reset" => pc = "reset"
  PROVE  ClientInv' /\ KeysKept
<1>1. PinnedByFile' = PinnedByFile /\ Pin' = Pin /\ Overridden(file, env)' = Overridden(file, env)
  BY DEF PinnedByFile, Overridden, Pin
<1>2. Loaded'
  BY <1>1 DEF ClientInv, Loaded, Running, Valid, CredentialsValid
<1>3. SetupType' /\ ResetOthersOnly' /\ NoLateConfigError'
  BY <1>1 DEF ClientInv, SetupType, ResetOthersOnly, NoLateConfigError
<1>4. WipedForPin'
  BY <1>1 DEF ClientInv, WipedForPin
<1> QED
  BY <1>2, <1>3, <1>4 DEF ClientInv, KeysKept

\* The listener, and what connect checks before it talks to the homeserver
\* (bind_smtp, connect).
LEMMA PrepareStep ==
  ASSUME ClientInv, Bind \/ Prepare
  PROVE  ClientInv' /\ KeysKept
<1>1. Running /\ Valid(config)
  BY DEF ClientInv, Loaded, Running, Bind, Prepare
<1>2. "bind" \notin config.wrong /\ ~ConnectFieldsWrong
  BY <1>1, ValidIsEnough DEF ConnectFieldsWrong, UsesToken, Pin
<1>3. lateError = FALSE
  BY DEF ClientInv, NoLateConfigError, Bind, Prepare
<1>4. lateError' = lateError
  BY <1>2, <1>3 DEF Bind, Prepare
<1>5. /\ pc' \in {"connect", "down", "auth", "backoff"}
      /\ file' = file /\ env' = env /\ config' = config /\ tokenDevice' = tokenDevice
      /\ wipes' = wipes /\ account' = account /\ suffix' = suffix
  BY <1>2 DEF Bind, Prepare, Goto, Fault, setup, disk
<1>6. SessionKeys' /\ Confirmed'
  BY <1>5 DEF SessionKeys, Confirmed
<1> QED
  BY <1>1, <1>4, <1>5, <1>6, Frame

\* One file of the crypto store is removed, or fails to be (reset_crypto_store).
LEMMA RemoveStep ==
  ASSUME ClientInv, RemoveFile
  PROVE  ClientInv' /\ KeysKept
<1>1. /\ pc = "reset" /\ Running /\ pc' \in {"reset", "backoff"}
      /\ file' = file /\ env' = env /\ config' = config
      /\ lateError' = lateError
  BY DEF RemoveFile, Fault, Goto, setup, Running
<1>2. suffix \in Nat /\ wipes \in Nat /\ suffix < 3
  BY SuffixesLemma DEF ClientInv, SetupType, RemoveFile
<1>3. \/ suffix' = suffix + 1 /\ suffix = 0 /\ account' = {} /\ wipes' = wipes + 1 /\ pc' = "reset"
      \/ suffix' = suffix + 1 /\ account' = account /\ wipes' = wipes /\ pc' = "reset"
      \/ suffix' = suffix /\ account' = account /\ wipes' = wipes /\ pc' = "backoff"
  <2>1. \/ /\ suffix' = suffix + 1 /\ UNCHANGED pc
           /\ IF Suffixes[suffix'] = "" THEN account' = {} /\ wipes' = wipes + 1
              ELSE account' = account /\ wipes' = wipes
        \/ pc' = "backoff" /\ suffix' = suffix /\ account' = account /\ wipes' = wipes
    BY DEF RemoveFile, Fault, Goto
  <2>2. suffix' = suffix + 1 /\ Suffixes[suffix'] = "" => suffix = 0
    <3>1. suffix = 0 \/ suffix = 1 \/ suffix = 2
      BY <1>2
    <3>2. suffix = 1 => suffix + 1 = 2
      OBVIOUS
    <3>3. suffix = 2 => suffix + 1 = 3
      OBVIOUS
    <3> QED
      BY <3>1, <3>2, <3>3, SuffixesLemma, Zenon
  <2> QED
    BY <1>1, <2>1, <2>2
<1>4. Pin' = Pin /\ PinnedByFile' = PinnedByFile /\ Pin = PinnedByFile
      /\ Overridden(file, env)' = Overridden(file, env)
  BY <1>1, PinFacts DEF Pin, PinnedByFile, Overridden
<1>5. SetupType' /\ NoLateConfigError'
  BY <1>1, <1>2, <1>3 DEF ClientInv, SetupType, NoLateConfigError
<1>6. Loaded'
  BY <1>1, <1>4 DEF ClientInv, Loaded, Valid, CredentialsValid
<1>7. SessionKeys' /\ Confirmed' /\ ResetOthersOnly'
  BY <1>1, <1>3, <1>4 DEF ClientInv, SessionKeys, Confirmed, ResetOthersOnly
<1>8. WipedForPin'
  BY <1>1, <1>2, <1>3, <1>4 DEF ClientInv, WipedForPin
<1>9. KeysKept
  BY <1>1 DEF ClientInv, ResetOthersOnly, KeysKept
<1> QED
  BY <1>5, <1>6, <1>7, <1>8, <1>9 DEF ClientInv

\* whoami and verify_device_id.
LEMMA WhoamiStep ==
  ASSUME ClientInv, Whoami
  PROVE  ClientInv' /\ KeysKept
<1>1. /\ pc = "whoami" /\ Running /\ pc' \in {"backoff", "sync", "sync_unverified"}
      /\ file' = file /\ env' = env /\ config' = config /\ tokenDevice' = tokenDevice
      /\ wipes' = wipes /\ lateError' = lateError /\ account' = account /\ suffix' = suffix
      /\ session' = session
  BY DEF Whoami, Fault, Goto, setup, history, disk, Running
<1>2. pc' = "sync" => ServerDevice # {} /\ (Pin = {} \/ ServerDevice = Pin)
  BY DEF Whoami, Fault, Goto
<1>3. Pin' = Pin /\ ServerDevice' = ServerDevice
  BY <1>1 DEF Pin, ServerDevice, UsesToken
<1>4. SessionKeys'
  BY <1>1, <1>3 DEF ClientInv, SessionKeys
<1>5. UsesToken => Pin # {}
  BY <1>1, ValidIsEnough DEF ClientInv, Loaded, UsesToken, Pin
<1>6. Pin # {} => session = Pin
  BY <1>1 DEF ClientInv, SessionKeys
<1>7. pc' = "sync" => ServerDevice = session
  BY <1>2, <1>5, <1>6 DEF ServerDevice
<1>8. Confirmed'
  BY <1>1, <1>3, <1>7 DEF Confirmed
<1> QED
  BY <1>1, <1>4, <1>8, Frame

\* The first sync (connect).
LEMMA SyncStep ==
  ASSUME ClientInv, Sync
  PROVE  ClientInv' /\ KeysKept
<1>1. /\ pc \in {"sync", "sync_unverified"} /\ Running
      /\ pc' \in {"backoff", "connected", "connected_unverified"}
      /\ pc' = "connected" => pc = "sync"
      /\ file' = file /\ env' = env /\ config' = config /\ tokenDevice' = tokenDevice
      /\ wipes' = wipes /\ lateError' = lateError /\ account' = account /\ suffix' = suffix
      /\ session' = session
  BY DEF Sync, Fault, Goto, setup, history, Running
<1>2. Pin' = Pin /\ ServerDevice' = ServerDevice
  BY <1>1 DEF Pin, ServerDevice, UsesToken
<1>3. SessionKeys' /\ Confirmed'
  BY <1>1, <1>2 DEF ClientInv, SessionKeys, Confirmed
<1> QED
  BY <1>1, <1>3, Frame

\* The second try, the wait between attempts, sends, and the end of the process
\* (connect, run_with_reconnect, send_message).
LEMMA OtherSteps ==
  ASSUME ClientInv,
         Rebuild \/ Reconnect \/ JoinRoom \/ QueryEncryption \/ Post \/ Kill \/ EncryptRoom
         \/ UNCHANGED vars
  PROVE  ClientInv' /\ KeysKept
<1>1. /\ file' = file /\ env' = env /\ config' = config /\ tokenDevice' = tokenDevice
      /\ wipes' = wipes /\ lateError' = lateError /\ account' = account /\ suffix' = suffix
      /\ session' = session
      /\ pc' = pc \/ (Running /\ pc' \in {"auth", "backoff", "connect", "down"})
  BY DEF Rebuild, Reconnect, JoinRoom, QueryEncryption, Post, Kill, EncryptRoom, vars,
         Fault, Goto, setup, history, disk, Running
<1>2. Pin' = Pin /\ ServerDevice' = ServerDevice
  BY <1>1 DEF Pin, ServerDevice, UsesToken
<1>3. SessionKeys' /\ Confirmed'
  BY <1>1, <1>2 DEF ClientInv, SessionKeys, Confirmed
<1>4. (pc' \in {"down", "refused"} \/ Running) /\ (pc' = "reset" => pc = "reset")
  BY <1>1 DEF Running
<1> QED
  BY <1>1, <1>3, <1>4, Frame

\* The operator changes the file (config.rs reads it at the next start).
LEMMA EditStep ==
  ASSUME ClientInv, Edit
  PROVE  ClientInv' /\ KeysKept
<1>1. /\ pc \in {"down", "refused"} /\ pc' = "down" /\ wipes' = 0 /\ file' \in Files(DeviceIds)
      /\ env' = env /\ lateError' = lateError /\ suffix' = suffix
  BY ClientAssumption DEF Edit, Goto
<1> QED
  BY <1>1 DEF ClientInv, SetupType, Loaded, SessionKeys, Confirmed, ResetOthersOnly, WipedForPin,
              NoLateConfigError, KeysKept, Running

\* Every step keeps the invariant and the configured device's keys (connect).
LEMMA ClientStep == ClientInv /\ [Next]_vars => ClientInv' /\ KeysKept
<1> SUFFICES ASSUME ClientInv, [Next]_vars PROVE ClientInv' /\ KeysKept
  OBVIOUS
<1>1. CASE Load
  BY <1>1, LoadStep
<1>2. CASE Bind \/ Prepare
  BY <1>2, PrepareStep
<1>3. CASE Restore \/ Login
  BY <1>3, LoginStep
<1>4. CASE RemoveFile
  BY <1>4, RemoveStep
<1>5. CASE Whoami
  BY <1>5, WhoamiStep
<1>6. CASE Sync
  BY <1>6, SyncStep
<1>7. CASE Rebuild \/ Reconnect \/ JoinRoom \/ QueryEncryption \/ Post \/ Kill \/ EncryptRoom
           \/ UNCHANGED vars
  BY <1>7, OtherSteps
<1>8. CASE Edit
  BY <1>8, EditStep
<1> QED
  BY <1>1, <1>2, <1>3, <1>4, <1>5, <1>6, <1>7, <1>8 DEF Next, Process, Send

-----------------------------------------------------------------------------
\* Configuration, session and crypto store fit together in every reachable
\* state (connect).
THEOREM ClientInvHolds == Spec => []ClientInv
BY InitClientInv, ClientStep, PTL DEF Spec

\* For any configuration and environment, what load accepts is not refused
\* later, when the service has already reported itself ready (validate).
THEOREM ConfigErrorsComeEarly == Spec => []NoLateConfigError
<1>1. ClientInv => NoLateConfigError
  BY DEF ClientInv
<1> QED
  BY ClientInvHolds, <1>1, PTL

\* A connected client acts as the configured device, with that device's keys
\* (connect, verify_device_id).
THEOREM ConnectsAsConfigured == Spec => []ConnectedAsConfigured
<1>1. ClientInv => ConnectedAsConfigured
  BY DEF ClientInv, SessionKeys, Confirmed, ConnectedAsConfigured, Connected
<1> QED
  BY ClientInvHolds, <1>1, PTL

\* A pinned device costs at most one reset of the crypto store per change of
\* the file, for any number of retries, kills and restarts (reset_crypto_store).
THEOREM StoreIsNotChurned == Spec => []PinnedWipedOnce
<1>1. ASSUME ClientInv, Pin # {}, Running PROVE wipes <= 1
  <2>1. Pin = PinnedByFile
    BY <1>1, PinFacts
  <2> QED
    BY <1>1, <2>1 DEF ClientInv, WipedForPin, SetupType
<1>2. ClientInv => PinnedWipedOnce
  BY <1>1 DEF PinnedWipedOnce, Running
<1> QED
  BY ClientInvHolds, <1>2, PTL

\* No step deletes the keys of the configured device, whatever failed before it
\* (is_mismatched_account, reset_crypto_store).
THEOREM ConfiguredKeysKept == Spec => PinnedKeysKept
<1>1. ClientInv /\ [Next]_vars =>
        [account # {} /\ account = Pin /\ pc \notin {"down", "refused"} => account' = account]_vars
  BY ClientStep DEF KeysKept, Running
<1> QED
  BY ClientInvHolds, <1>1, PTL DEF Spec, PinnedKeysKept

\* With require_e2ee no step posts in the clear, whatever the client knows of
\* the room (send_message).
THEOREM NothingInTheClear == Spec => NoPlaintext
<1>1. [Next]_vars =>
        [posts' # posts /\ config.require_e2ee => posts' = posts \cup {"cipher"}]_vars
  <2> SUFFICES ASSUME Next, posts' # posts, config.require_e2ee PROVE posts' = posts \cup {"cipher"}
    OBVIOUS
  <2> USE DEF homeserver
  <2>1. ~(Load \/ Bind \/ Prepare \/ Restore \/ Login \/ RemoveFile)
    BY DEF Load, Bind, Prepare, Restore, Login, RemoveFile
  <2>2. ~(Rebuild \/ Whoami \/ Sync \/ Reconnect \/ JoinRoom \/ QueryEncryption)
    BY DEF Rebuild, Whoami, Sync, Reconnect, JoinRoom, QueryEncryption
  <2>3. ~(Kill \/ Edit \/ EncryptRoom)
    BY DEF Kill, Edit, EncryptRoom
  <2>4. Post
    BY <2>1, <2>2, <2>3 DEF Next, Process, Send
  <2> QED
    BY <2>4 DEF Post
<1> QED
  BY <1>1, PTL DEF Spec, NoPlaintext

-----------------------------------------------------------------------------
(***************************************************************************)
(* Types.  A device whose keys the store holds was pinned, and so loaded,  *)
(* or issued.                                                              *)
(***************************************************************************)
\* What apply_env_overrides makes of a file is a configuration, with no
\* placeholder left for a device.
LEMMA OverriddenTyped ==
  ASSUME NEW f \in Files(DeviceIds), NEW e \in Envs(DeviceIds)
  PROVE  /\ Overridden(f, e) \in Files(DeviceIds)
         /\ \A d \in Overridden(f, e).device_id : d \in Nat
<1>1. /\ f.password \in Secrets /\ f.access_token \in Secrets
      /\ f.device_id \in Options({Ref, Blank} \cup DeviceIds)
  BY DEF Files
<1>2. /\ e.password \in Secrets /\ e.access_token \in Secrets
      /\ e.device_id \in Options({Blank} \cup DeviceIds)
  BY DEF Envs, Secrets, Options
<1>3. /\ DOMAIN Overridden(f, e) = DOMAIN f
      /\ Overridden(f, e).device_id = IF f.device_id = {Ref} THEN e.device_id ELSE f.device_id
  BY DEF Files, Overridden
<1>4. e.device_id \in Options({Ref, Blank} \cup DeviceIds)
  BY <1>2 DEF Options
<1>5. Overridden(f, e) \in Files(DeviceIds)
  <2> HIDE DEF Secrets, Options
  <2> QED
    BY <1>1, <1>2, <1>4 DEF Overridden, Files
<1>6. ASSUME NEW d \in Overridden(f, e).device_id PROVE d \in Nat
  <2>1. DeviceIds \subseteq Nat /\ Blank \in Nat
    BY ClientAssumption DEF Blank
  <2>2. d \in {Blank} \cup DeviceIds
    BY <1>1, <1>2, <1>3 DEF Options
  <2> QED
    BY <2>1, <2>2
<1> QED
  BY <1>5, <1>6

\* The first start (main).
LEMMA InitTyped == Init => TypeOK
<1> SUFFICES ASSUME Init PROVE TypeOK
  OBVIOUS
<1>1. /\ file \in Files(DeviceIds) /\ env \in Envs(DeviceIds) /\ config \in Files(DeviceIds)
      /\ tokenDevice \in DeviceIds
  BY ClientAssumption DEF Init
<1>2. \A d \in session \cup account : d \in Nat
  BY ClientAssumption DEF Init, Options
<1>3. starts \in 0 .. MaxStarts /\ edits \in 0 .. MaxEdits /\ faults \in 0 .. MaxFaults
  BY ClientAssumption DEF Init
<1>4. suffix \in 0 .. Len(Suffixes) /\ issued \in Nat /\ wipes \in Nat
  <2>1. Len(Suffixes) \in Nat
    BY DEF Suffixes
  <2> QED
    BY <2>1 DEF Init
<1> QED
  BY <1>1, <1>2, <1>3, <1>4 DEF Init, TypeOK

\* The crypto store is opened for a device that is a number.
LEMMA OpensTyped ==
  ASSUME TypeOK, NEW device \in Nat, Opens(device)
  PROVE  /\ pc' \in {"whoami", "reset", "backoff"} /\ suffix' \in 0 .. Len(Suffixes)
         /\ \A d \in session' \cup account' : d \in Nat
         /\ faults' \in 0 .. MaxFaults
<1> USE DEF Opens, Goto
<1>1. CASE Fault("backoff") /\ UNCHANGED <<account, session, suffix>>
  BY <1>1, ClientAssumption DEF TypeOK, Fault
<1>2. CASE ~(Fault("backoff") /\ UNCHANGED <<account, session, suffix>>)
  <2>1. pc' \in {"whoami", "reset", "backoff"} /\ faults' = faults
    BY <1>2
  <2>2. suffix' \in {0, suffix} /\ \A d \in session' \cup account' : d \in session \cup account \cup {device}
    BY <1>2
  <2>3. Len(Suffixes) \in Nat
    BY DEF Suffixes
  <2> QED
    BY <2>1, <2>2, <2>3 DEF TypeOK
<1> QED
  BY <1>1, <1>2

\* Every step keeps the types (connect, send_message).
LEMMA TypedStep == ClientInv /\ TypeOK /\ [Next]_vars => TypeOK'
<1> SUFFICES ASSUME ClientInv, TypeOK, [Next]_vars PROVE TypeOK'
  OBVIOUS
<1>0. /\ faults < MaxFaults => faults + 1 \in 0 .. MaxFaults
      /\ starts < MaxStarts => starts + 1 \in 0 .. MaxStarts
      /\ edits < MaxEdits => edits + 1 \in 0 .. MaxEdits
  BY ClientAssumption DEF TypeOK
<1> USE <1>0 DEF Goto, setup, disk, homeserver, history
<1>1. CASE Load
  <2>1. config' \in Files(DeviceIds)
    BY <1>1, OverriddenTyped DEF Load, TypeOK
  <2>2. pc' \in {"bind", "refused"} /\ starts' \in 0 .. MaxStarts
    BY <1>1 DEF Load, TypeOK
  <2> QED
    BY <1>1, <2>1, <2>2 DEF Load, TypeOK
<1>2. CASE Bind
  <2>1. lateError' \in BOOLEAN
    BY <1>2, Zenon DEF Bind, TypeOK
  <2>2. pc' \in {"refused", "connect", "down"} /\ faults' \in 0 .. MaxFaults
    BY <1>2 DEF Bind, Fault, TypeOK
  <2> QED
    BY <1>2, <2>1, <2>2 DEF Bind, TypeOK
<1>3. CASE Prepare
  <2>1. lateError' \in BOOLEAN
    BY <1>3, Zenon DEF Prepare, TypeOK
  <2>2. pc' \in {"backoff", "auth"} /\ faults' \in 0 .. MaxFaults
    BY <1>3 DEF Prepare, Fault, TypeOK
  <2> QED
    BY <1>3, <2>1, <2>2 DEF Prepare, TypeOK
<1>4. CASE Restore \/ Login
  <2>1. \A d \in Pin : d \in Nat
    <3>1. config = Overridden(file, env)
      BY <1>4 DEF Restore, Login, ClientInv, Loaded, Running
    <3> QED
      BY <3>1, OverriddenTyped DEF TypeOK, Pin
  <2>2. NewDevice \in Nat
    BY DEF NewDevice, TypeOK
  <2>3. \E device \in Nat : Opens(device)
    BY <1>4, <2>1, <2>2 DEF Restore, Login
  <2>4. issued' \in Nat
    BY <1>4 DEF Restore, Login, TypeOK
  <2>5. /\ UNCHANGED <<setup, config, again, roomState, starts, edits, history>>
        /\ UNCHANGED <<encrypted, posts>>
    BY <1>4 DEF Restore, Login
  <2>6. /\ pc' \in {"whoami", "reset", "backoff"} /\ suffix' \in 0 .. Len(Suffixes)
        /\ \A d \in session' \cup account' : d \in Nat
        /\ faults' \in 0 .. MaxFaults
    BY <2>3, OpensTyped
  <2> QED
    BY <2>4, <2>5, <2>6 DEF TypeOK
<1>5. CASE RemoveFile
  <2>1. suffix' \in 0 .. Len(Suffixes) /\ account' \in {{}, account} /\ wipes' \in Nat
    <3>1. Len(Suffixes) \in Nat
      BY DEF Suffixes
    <3>2. /\ suffix < Len(Suffixes) /\ (suffix' = suffix + 1 \/ suffix' = suffix)
          /\ (account' = {} /\ wipes' = wipes + 1) \/ (account' = account /\ wipes' = wipes)
      BY <1>5, Zenon DEF RemoveFile
    <3> QED
      BY <3>1, <3>2 DEF TypeOK
  <2>2. pc' \in {pc, "backoff"} /\ faults' \in 0 .. MaxFaults
    BY <1>5 DEF RemoveFile, Fault, TypeOK
  <2> QED
    BY <1>5, <2>1, <2>2 DEF RemoveFile, TypeOK
<1>6. CASE Rebuild
  <2>1. pc' \in {"auth", "backoff"} /\ faults' \in 0 .. MaxFaults /\ again' \in BOOLEAN
    BY <1>6 DEF Rebuild, Fault, TypeOK
  <2> QED
    BY <1>6, <2>1 DEF Rebuild, TypeOK
<1>7. CASE Whoami
  BY <1>7 DEF Whoami, Fault, TypeOK
<1>8. CASE Sync
  BY <1>8 DEF Sync, Fault, TypeOK
<1>9. CASE Reconnect \/ Kill \/ EncryptRoom \/ UNCHANGED vars
  BY <1>9 DEF Reconnect, Kill, EncryptRoom, vars, TypeOK
<1>10. CASE JoinRoom \/ QueryEncryption
  <2>1. /\ roomState' \in {"none", "unknown", "plain", "encrypted"}
        /\ faults' \in 0 .. MaxFaults
    BY <1>10 DEF JoinRoom, QueryEncryption, TypeOK
  <2> QED
    BY <1>10, <2>1 DEF JoinRoom, QueryEncryption, TypeOK
<1>11. CASE Post
  BY <1>11 DEF Post, TypeOK
<1>12. CASE Edit
  <2>1. file' \in Files(DeviceIds) /\ edits' \in 0 .. MaxEdits /\ wipes' = 0
    BY <1>12, ClientAssumption DEF Edit
  <2> QED
    BY <1>12, <2>1 DEF Edit, TypeOK
<1> QED
  BY <1>1, <1>2, <1>3, <1>4, <1>5, <1>6, <1>7, <1>8, <1>9, <1>10, <1>11, <1>12
     DEF Next, Process, Send

\* The state has its type in every reachable state; in particular no placeholder
\* of an environment variable ever becomes a device (connect, send_message).
THEOREM ClientTypeCorrect == Spec => []TypeOK
BY InitTyped, TypedStep, ClientInvHolds, PTL DEF Spec
=============================================================================
