--------------------------- MODULE MCMatrixClient ---------------------------
EXTENDS MatrixClient

Base == [wrong |-> {}, password |-> {}, access_token |-> {}, device_id |-> {}, require_e2ee |-> TRUE]
Unset == [password |-> {}, access_token |-> {}, device_id |-> {}]

\* Every way to give the credentials, in an environment that sets only what the
\* file refers to.
AnyCredentials ==
  {i \in [wrong : {{}}, password : Secrets, access_token : Secrets,
          device_id : Options({Ref, Blank, 1}), require_e2ee : {TRUE}] \X Envs({1}) :
     \A k \in DOMAIN Unset : i[2][k] # {} => i[1][k] = {Ref}}

\* Sound credentials, with one wrong setting or without require_e2ee.
OneSetting ==
  ({[Base EXCEPT !.wrong = {w}, !.access_token = {1}, !.device_id = {1}] : w \in Fields}
     \cup {[Base EXCEPT !.password = {1}, !.device_id = {1}, !.require_e2ee = FALSE]})
    \X {Unset}

MCInputs ==
  {<<i[1], i[2], d>> : i \in AnyCredentials \cup OneSetting, d \in {1}}
  \cup {<<i[1], i[2], d>> : i \in {j \in AnyCredentials : j[1].access_token # {}}, d \in {2}}

\* Another device, another way to log in, or no pinned device.
MCEdits ==
  {[Base EXCEPT !.access_token = {1}, !.device_id = {2}],
   [Base EXCEPT !.password = {1}, !.device_id = {1}],
   [Base EXCEPT !.password = {1}]}
=============================================================================
