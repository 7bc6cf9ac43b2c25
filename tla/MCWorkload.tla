------------------------------ MODULE MCWorkload ------------------------------
(***************************************************************************)
(* Small instances of Workload: two monitors, and documents that change    *)
(* the credentials, the sinks, the labels and the configuration, and leave *)
(* out different fields.                                                   *)
(***************************************************************************)
EXTENDS Workload, TLC

\* Everything optional is left out.
Plain == [database |-> "db", username |-> "u", password |-> "p", metrics |-> "m1",
          prometheus |-> TRUE]

\* The user writes the other monitor's labels, and a config hash.
Claiming == Plain @@
    [podLabels |-> [instance |-> "b", team |-> "x"],
     podAnnotations |-> [configHash |-> <<"mine">>],
     serviceLabels |-> [instance |-> "b", monitor |-> "b"],
     promPort |-> 9000, enabled |-> TRUE]
\* The same overrides with another configuration.
ClaimingAgain == [sslmode |-> "require"] @@ Claiming
\* Credentials from a Secret, empty strings where they are allowed, and sinks that
\* are not there or left at their default.
FromSecret == [database |-> "db", secret |-> "creds", usernameKey |-> "", passwordKey |-> "pw",
               metrics |-> "m1", image |-> TRUE, tag |-> "", port |-> 6432,
               grpc |-> TRUE, endpoint |-> "receiver:50051"]
\* The Prometheus sink switched off, and a gRPC sink on.
Pushing == Plain @@ [enabled |-> FALSE, grpc |-> TRUE, grpcEnabled |-> TRUE,
                     endpoint |-> "receiver:50051"]
\* Stored before the validation rules on credentials.
NoCredentials == [database |-> "db", metrics |-> "m1", prometheus |-> TRUE]

UsualSpecs == {Plain, Claiming, ClaimingAgain, FromSecret, Pushing, NoCredentials}
PushOnlySpecs == {Plain, Pushing}
=============================================================================
