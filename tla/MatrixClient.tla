---------------------------- MODULE MatrixClient ----------------------------
(***************************************************************************)
(* matrix/client.rs under main.rs: the configuration is loaded, the SMTP   *)
(* listener bound, and MatrixClient::connect tried until it succeeds; then *)
(* send_message posts.  The process may be killed at any point, and the    *)
(* operator may change the file while it is down.                          *)
(*                                                                         *)
(* The crypto store outlives the process.  It holds the keys of one device *)
(* and refuses a session of another one (MismatchedAccount); connect then  *)
(* deletes its files one by one and starts over.  Devices are numbers:     *)
(* DeviceIds may be configured, greater ones are issued by the homeserver. *)
(***************************************************************************)
EXTENDS Config, Sequences

CONSTANTS
  DeviceIds,     \* device ids an operator configures
  Inputs,        \* a configuration file, an environment, and the device the access
                 \* token belongs to
  Edits,         \* what the operator may change the file to
  MaxEdits,      \* bound: changes of the file
  MaxStarts,     \* bound: starts of the process
  MaxFaults      \* bound: failures of disk, network and homeserver

ASSUME ClientAssumption ==
  /\ DeviceIds \subseteq Nat \ {0}
  /\ Inputs \subseteq Files(DeviceIds) \X Envs(DeviceIds) \X DeviceIds
  /\ Edits \subseteq Files(DeviceIds)
  /\ MaxEdits \in Nat /\ MaxStarts \in Nat /\ MaxFaults \in Nat

VARIABLES
  file, env,     \* what the process finds when it starts
  tokenDevice,   \* the device the access token belongs to
  config,        \* what it loaded
  pc,            \* where the process is
  again,         \* connect is past its store reset
  suffix,        \* files of the crypto store reset_crypto_store has removed
  session,       \* the device of the client's session
  account,       \* on disk: the device whose keys the crypto store holds
  issued,        \* at the homeserver: the devices it has issued itself
  roomState,     \* on disk: what the client knows of the destination room
  encrypted,     \* at the homeserver: the room is encrypted
  posts,         \* the kinds of events posted
  starts, edits, faults,  \* counters for the bounds
  wipes,         \* history: resets of the crypto store under this file
  lateError      \* history: a loaded configuration made bind_smtp or connect fail,
                 \* before the homeserver was asked

disk == <<account, roomState>>
homeserver == <<issued, encrypted, posts>>
setup == <<file, env, tokenDevice>>
history == <<wipes, lateError>>
vars == <<setup, config, pc, again, suffix, session, disk, homeserver,
          starts, edits, faults, history>>

Suffixes == <<"", "-wal", "-shm">>

Init ==
  /\ \E i \in Inputs : file = i[1] /\ config = i[1] /\ env = i[2] /\ tokenDevice = i[3]
  /\ account \in Options(DeviceIds) /\ roomState \in {"none", "plain"}
  /\ encrypted = FALSE
  /\ pc = "down" /\ again = FALSE /\ suffix = 0 /\ session = {}
  /\ issued = 0 /\ posts = {}
  /\ starts = 0 /\ edits = 0 /\ faults = 0 /\ wipes = 0 /\ lateError = FALSE

Goto(label) == pc' = label

\* Something fails: the attempt is over, and run_with_reconnect tries again.
Fault(label) ==
  /\ faults < MaxFaults /\ faults' = faults + 1
  /\ Goto(label)

-----------------------------------------------------------------------------
(***************************************************************************)
(* main, up to the listener.                                               *)
(***************************************************************************)
\* Config::load_default and init_tracing: an error ends the process.
Load ==
  /\ pc = "down" /\ starts < MaxStarts
  /\ starts' = starts + 1
  /\ config' = IF EnvMissing(file, env) THEN file ELSE Overridden(file, env)
  /\ Goto(IF ~EnvMissing(file, env) /\ Valid(config') /\ "level" \notin config'.wrong
          THEN "bind" ELSE "refused")
  /\ UNCHANGED <<setup, again, suffix, session, disk, homeserver, edits, faults, history>>

\* The outbox is opened and the listener bound (bind_smtp), then READY=1.
Bind ==
  /\ pc = "bind"
  /\ \/ /\ Goto(IF "bind" \in config.wrong THEN "refused" ELSE "connect")
        /\ lateError' = (lateError \/ "bind" \in config.wrong)
        /\ UNCHANGED faults
     \/ Fault("down") /\ UNCHANGED lateError
  /\ UNCHANGED <<setup, config, again, suffix, session, disk, homeserver, starts, edits, wipes>>

-----------------------------------------------------------------------------
(***************************************************************************)
(* MatrixClient::connect.                                                  *)
(***************************************************************************)
Pin == config.device_id
UsesToken == config.access_token # {}

\* What connect parses before it talks to the homeserver.
ConnectFieldsWrong ==
  \/ config.wrong \cap {"homeserver", "user_id", "rooms"} # {}
  \/ UsesToken /\ Pin = {}
  \/ ~UsesToken /\ config.password = {}

\* The URL, the store directory, build_client, the user and the rooms.
Prepare ==
  /\ pc = "connect"
  /\ again' = FALSE /\ session' = {}
  /\ \/ /\ Goto(IF ConnectFieldsWrong THEN "backoff" ELSE "auth")
        /\ lateError' = (lateError \/ ConnectFieldsWrong)
        /\ UNCHANGED faults
     \/ Fault("backoff") /\ UNCHANGED lateError
  /\ UNCHANGED <<setup, config, suffix, disk, homeserver, starts, edits, wipes>>

\* A plausible defect: any error of the login is taken for a mismatch.
OpensWiping(device) ==
  \/ /\ account \in {{}, {device}}
     /\ account' = {device} /\ session' = {device}
     /\ Goto("whoami") /\ UNCHANGED <<suffix, faults>>
  \/ /\ suffix' = 0 /\ UNCHANGED <<account, session>>
     /\ \/ account \notin {{}, {device}} /\ Goto(IF again THEN "backoff" ELSE "reset") /\ UNCHANGED faults
        \/ account \in {{}, {device}} /\ Fault(IF again THEN "backoff" ELSE "reset")

\* The client opens the crypto store for a device: it takes an empty store for
\* its own, and finds a mismatch in another device's, which connect handles
\* once (is_mismatched_account); any other error ends the attempt.
Opens(device) ==
  \/ /\ account \in {{}, {device}}
     /\ account' = {device} /\ session' = {device}
     /\ Goto("whoami") /\ UNCHANGED <<suffix, faults>>
  \/ /\ account \notin {{}, {device}}
     /\ Goto(IF again THEN "backoff" ELSE "reset")
     /\ suffix' = 0 /\ UNCHANGED <<account, session, faults>>
  \/ Fault("backoff") /\ UNCHANGED <<account, session, suffix>>

\* restore_session with the configured device: nothing is asked of the
\* homeserver.
Restore ==
  /\ pc = "auth" /\ UsesToken
  /\ \E device \in Pin : Opens(device)
  /\ UNCHANGED <<setup, config, again, roomState, homeserver, starts, edits, history>>

\* The device a homeserver issues when none is asked for.
NewDevice == 10 + issued

\* A plausible defect: the configured device is not asked for.
LoginUnpinned ==
  /\ pc = "auth" /\ ~UsesToken
  /\ issued' = issued + 1
  /\ Opens(NewDevice)
  /\ UNCHANGED <<setup, config, again, roomState, encrypted, posts, starts, edits, history>>

\* do_password_login: the homeserver logs the pinned device in, or a new one,
\* before the crypto store is opened for it.
Login ==
  /\ pc = "auth" /\ ~UsesToken
  /\ \/ /\ Pin # {} /\ UNCHANGED issued
        /\ \E device \in Pin : Opens(device)
     \/ /\ Pin = {} /\ issued' = issued + 1
        /\ Opens(NewDevice)
  /\ UNCHANGED <<setup, config, again, roomState, encrypted, posts, starts, edits, history>>

\* A plausible defect: the database is not where reset_crypto_store looks for
\* it, which NotFound hides.
RemoveNothing ==
  /\ pc = "reset" /\ suffix < Len(Suffixes)
  /\ suffix' = suffix + 1
  /\ UNCHANGED <<setup, config, pc, again, session, disk, homeserver, starts, edits, faults, history>>

\* reset_crypto_store removes one file, or does not find it; the database, with
\* the keys, comes first.  Another error ends the attempt halfway.
RemoveFile ==
  /\ pc = "reset" /\ suffix < Len(Suffixes)
  /\ \/ /\ suffix' = suffix + 1
        /\ IF Suffixes[suffix'] = ""
           THEN account' = {} /\ wipes' = wipes + 1
           ELSE UNCHANGED <<account, wipes>>
        /\ UNCHANGED <<pc, faults>>
     \/ Fault("backoff") /\ UNCHANGED <<suffix, account, wipes>>
  /\ UNCHANGED <<setup, config, again, session, roomState, homeserver, starts, edits, lateError>>

\* build_client again, for the second and last try.
Rebuild ==
  /\ pc = "reset" /\ suffix = Len(Suffixes)
  /\ \/ Goto("auth") /\ again' = TRUE /\ UNCHANGED faults
     \/ Fault("backoff") /\ UNCHANGED again
  /\ UNCHANGED <<setup, config, suffix, session, disk, homeserver, starts, edits, history>>

\* The device the homeserver knows the session by.
ServerDevice == IF UsesToken THEN {tokenDevice} ELSE session

\* A plausible defect: the reported device is not compared with the pinned one.
WhoamiUnverified ==
  /\ pc = "whoami"
  /\ \/ Goto("sync") /\ UNCHANGED faults
     \/ Fault("backoff")
  /\ UNCHANGED <<setup, config, again, suffix, session, disk, homeserver, starts, edits, history>>

\* whoami and verify_device_id.  A homeserver need not report a device.
Whoami ==
  /\ pc = "whoami"
  /\ \/ \E reported \in {{}, ServerDevice} :
          /\ Goto(IF Pin # {} /\ reported \notin {{}, Pin} THEN "backoff"
                  ELSE IF reported = {} THEN "sync_unverified" ELSE "sync")
          /\ UNCHANGED faults
     \/ Fault("backoff")
  /\ UNCHANGED <<setup, config, again, suffix, session, disk, homeserver, starts, edits, history>>

\* sync_once learns the state of a room the bot is in; cross-signing may fail
\* to be set up, which is only logged.
Sync ==
  /\ pc \in {"sync", "sync_unverified"}
  /\ \/ /\ Goto(IF pc = "sync" THEN "connected" ELSE "connected_unverified")
        /\ roomState' = IF roomState = "none" THEN "none"
                        ELSE IF encrypted THEN "encrypted" ELSE "plain"
        /\ UNCHANGED faults
     \/ Fault("backoff") /\ UNCHANGED roomState
  /\ UNCHANGED <<setup, config, again, suffix, session, account, homeserver, starts, edits, history>>

\* run_with_reconnect waits and tries again.
Reconnect ==
  /\ pc = "backoff" /\ Goto("connect")
  /\ UNCHANGED <<setup, config, again, suffix, session, disk, homeserver, starts, edits, faults, history>>

-----------------------------------------------------------------------------
(***************************************************************************)
(* MatrixClient::send_message.                                             *)
(***************************************************************************)
Connected == pc \in {"connected", "connected_unverified"}

\* get_room, or join_room_by_id when the client does not know the room.
JoinRoom ==
  /\ Connected /\ roomState = "none"
  /\ \/ roomState' = "unknown" /\ UNCHANGED faults
     \/ faults < MaxFaults /\ faults' = faults + 1 /\ UNCHANGED roomState
  /\ UNCHANGED <<setup, config, pc, again, suffix, session, account, homeserver, starts, edits, history>>

\* request_encryption_state, only when it is not known yet.
QueryEncryption ==
  /\ Connected /\ roomState = "unknown"
  /\ \/ roomState' = (IF encrypted THEN "encrypted" ELSE "plain") /\ UNCHANGED faults
     \/ faults < MaxFaults /\ faults' = faults + 1 /\ UNCHANGED roomState
  /\ UNCHANGED <<setup, config, pc, again, suffix, session, account, homeserver, starts, edits, history>>

\* A plausible defect: a room of unknown state passes for an encrypted one.
PostUnlessPlain ==
  /\ Connected /\ roomState # "none"
  /\ roomState = "plain" => ~config.require_e2ee
  /\ posts' = posts \cup {IF encrypted THEN "cipher" ELSE "plain"}
  /\ UNCHANGED <<setup, config, pc, again, suffix, session, disk, issued, encrypted,
                 starts, edits, faults, history>>

\* room.send: encrypted when the client knows the room to be; refused before
\* that when it is not and require_e2ee is set.
Post ==
  /\ Connected /\ roomState \in {"plain", "encrypted"}
  /\ roomState = "plain" => ~config.require_e2ee
  /\ posts' = posts \cup {IF roomState = "encrypted" THEN "cipher" ELSE "plain"}
  /\ UNCHANGED <<setup, config, pc, again, suffix, session, disk, issued, encrypted,
                 starts, edits, faults, history>>

-----------------------------------------------------------------------------
(***************************************************************************)
(* The environment.                                                        *)
(***************************************************************************)
\* The process is killed, or shut down.
Kill ==
  /\ pc \notin {"down", "refused"} /\ Goto("down")
  /\ UNCHANGED <<setup, config, again, suffix, session, disk, homeserver,
                 starts, edits, faults, history>>

\* The operator changes the configuration of a process that is not running.
Edit ==
  /\ pc \in {"down", "refused"} /\ edits < MaxEdits
  /\ edits' = edits + 1
  /\ file' \in Edits
  /\ Goto("down") /\ wipes' = 0
  /\ UNCHANGED <<env, tokenDevice, config, again, suffix, session, disk, homeserver,
                 starts, faults, lateError>>

\* The room's encryption is turned on, which cannot be undone.
EncryptRoom ==
  /\ ~encrypted /\ encrypted' = TRUE
  /\ UNCHANGED <<setup, config, pc, again, suffix, session, disk, issued, posts,
                 starts, edits, faults, history>>

Process ==
  \/ Load \/ Bind \/ Prepare \/ Restore \/ Login \/ RemoveFile \/ Rebuild
  \/ Whoami \/ Sync \/ Reconnect

Send == JoinRoom \/ QueryEncryption \/ Post

Next == Process \/ Send \/ Kill \/ Edit \/ EncryptRoom

Spec == Init /\ [][Next]_vars

\* The process is scheduled, and systemd starts it again.
FairSpec == Spec /\ WF_vars(Process)

-----------------------------------------------------------------------------
\* The state has its type (connect, send_message).
TypeOK ==
  /\ file \in Files(DeviceIds) /\ env \in Envs(DeviceIds) /\ config \in Files(DeviceIds)
  /\ tokenDevice \in DeviceIds
  /\ pc \in {"down", "refused", "bind", "connect", "auth", "reset", "whoami", "sync",
             "sync_unverified", "backoff", "connected", "connected_unverified"}
  /\ again \in BOOLEAN /\ suffix \in 0 .. Len(Suffixes)
  /\ \A d \in session \cup account : d \in Nat
  /\ issued \in Nat /\ encrypted \in BOOLEAN
  /\ roomState \in {"none", "unknown", "plain", "encrypted"}
  /\ posts \subseteq {"plain", "cipher"}
  /\ starts \in 0 .. MaxStarts /\ edits \in 0 .. MaxEdits /\ faults \in 0 .. MaxFaults
  /\ wipes \in Nat /\ lateError \in BOOLEAN

\* "so a malformed homeserver URL fails `Config::load` synchronously at startup
\* instead of passing readiness and looping forever": what load accepted never
\* makes bind_smtp or connect fail before a homeserver is asked (validate).
NoLateConfigError == ~lateError

\* A connected client's crypto store holds the keys of its session's device,
\* the configured one if there is one, and the homeserver knows the session by
\* it unless it did not say (connect).
ConnectedAsConfigured ==
  Connected =>
    /\ session # {} /\ account = session
    /\ Pin # {} => session = Pin
    /\ pc = "connected" => ServerDevice = session

\* However often connect is retried, cut off halfway or restarted, a pinned
\* device costs at most one reset of the crypto store per change of the file:
\* the store is not churned (reset_crypto_store, verify_device_id).
PinnedWipedOnce == Pin # {} /\ pc \notin {"down", "refused"} => wipes <= 1

\* The keys of the configured device are never deleted, whatever fails: only a
\* store that belongs to another device is reset (is_mismatched_account).
PinnedKeysKept ==
  [][account # {} /\ account = Pin /\ pc \notin {"down", "refused"} => account' = account]_vars

\* With require_e2ee nothing is posted in the clear (send_message).
NoPlaintext == [][posts' # posts /\ config.require_e2ee => posts' = posts \cup {"cipher"}]_vars

\* A service that has loaded its configuration gets connected in the end: no
\* store left behind by another device or by a reset cut short keeps it from
\* connecting, unless the token is another device's (connect).
EventuallyConnects ==
  pc = "bind" /\ (UsesToken => Pin = {tokenDevice}) ~> Connected \/ pc = "down"
=============================================================================
