------------------------------- MODULE Config -------------------------------
(***************************************************************************)
(* config.rs: what Config::load_from_path accepts.  A setting is right or  *)
(* wrong (blank, zero, or not parseable); the credentials are told apart   *)
(* further.  An Option is a set of at most one value.                      *)
(***************************************************************************)
EXTENDS Integers

\* The settings a file can get wrong.  "rooms" is what Router::from_config
\* parses: matrix.room_id and the routes.
Fields ==
  {"bind", "max_message_size", "max_connections", "max_session_seconds",
   "db_path", "retry_backoff", "homeserver", "user_id", "store_path", "rooms",
   "template", "level"}

Ref == -1      \* the placeholder of an environment variable, as "${...}"
Blank == 0     \* a value of white space only

Options(S) == {{}} \cup {{v} : v \in S}
Secrets == Options({Ref, Blank, 1})

Files(deviceIds) ==
  [wrong : SUBSET Fields, password : Secrets, access_token : Secrets,
   device_id : Options({Ref, Blank} \cup deviceIds), require_e2ee : BOOLEAN]

Envs(deviceIds) ==
  [password : Options({Blank, 1}), access_token : Options({Blank, 1}),
   device_id : Options({Blank} \cup deviceIds)]

\* A referenced variable must be set, though it may be blank.
EnvMissing(file, env) ==
  \E f \in {"password", "access_token", "device_id"} : file[f] = {Ref} /\ env[f] = {}

\* A plausible defect: the value of device_id is not looked up.
OverrideSecretsOnly(file, env) ==
  [file EXCEPT !.password = IF @ = {Ref} THEN env.password ELSE @,
               !.access_token = IF @ = {Ref} THEN env.access_token ELSE @]

\* apply_env_overrides.
Overridden(file, env) ==
  [file EXCEPT !.password = IF @ = {Ref} THEN env.password ELSE @,
               !.access_token = IF @ = {Ref} THEN env.access_token ELSE @,
               !.device_id = IF @ = {Ref} THEN env.device_id ELSE @]

\* The settings validate checks: all but the log level, which init_tracing does.
Validated == Fields \ {"level"}

\* One of password and access_token, and a device_id with the latter.
CredentialsValid(config) ==
  /\ (config.password = {}) # (config.access_token = {})
  /\ config.access_token # {} =>
       config.access_token # {Blank} /\ config.device_id \notin {{}, {Blank}}

\* A plausible defect: what only MatrixClient::connect parses is not validated.
ValidWithoutMatrix(config) ==
  config.wrong \cap (Validated \ {"user_id", "rooms"}) = {} /\ CredentialsValid(config)

Valid(config) == config.wrong \cap Validated = {} /\ CredentialsValid(config)
=============================================================================
