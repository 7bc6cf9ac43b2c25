------------------------------ MODULE Admission -------------------------------
(***************************************************************************)
(* What becomes of a monitor's spec on its way from the user's YAML to the *)
(* Go struct the builders read, and back: the defaults and the rules of    *)
(* the custom resource definition, which the API server applies to every   *)
(* write, and the JSON tags of the struct, which decide what the           *)
(* operator's own Update (the one that adds the finalizer) sends.          *)
(*                                                                         *)
(* A document is a function whose domain is the set of fields present.     *)
(* Nested structs are flattened: the field of a struct is present when the *)
(* struct is, and its own fields name it as their Parent.                  *)
(***************************************************************************)
EXTENDS Naturals

\* The structs and the fields that matter for the workload; database stands for
\* host and database name, metrics for the metrics section.
Parent ==
    [port |-> "database", sslmode |-> "database",
     username |-> "database", password |-> "database", secret |-> "database",
     usernameKey |-> "secret", passwordKey |-> "secret",
     enabled |-> "prometheus", promPort |-> "prometheus",
     grpcEnabled |-> "grpc", endpoint |-> "grpc",
     repository |-> "image", tag |-> "image"]

\* The kubebuilder:default markers.
Defaults ==
    [port |-> 5432, sslmode |-> "disable",
     usernameKey |-> "username", passwordKey |-> "password",
     enabled |-> TRUE, promPort |-> 9187, grpcEnabled |-> FALSE,
     repository |-> "cybertecpostgresql/pgwatch", tag |-> "5.1.0"]

\* What the schema lets through: required fields are there, unknown ones are
\* pruned, and a field is in its struct. (A struct that is there is TRUE.)
WellFormed(doc) ==
    /\ {"database", "metrics"} \subseteq DOMAIN doc
    /\ \A f \in DOMAIN Parent \cap DOMAIN doc : Parent[f] \in DOMAIN doc
    /\ \A f \in {"prometheus", "grpc", "image"} \cap DOMAIN doc : doc[f] = TRUE
    /\ \A f \in {"enabled", "grpcEnabled"} \cap DOMAIN doc : doc[f] \in BOOLEAN
    /\ \A f \in {"port", "promPort"} \cap DOMAIN doc : doc[f] \in Nat

\* The API server fills in a default where the struct around it is present.
Default(doc) ==
    LET missing == {f \in DOMAIN Defaults \ DOMAIN doc : Parent[f] \in DOMAIN doc}
    IN  [f \in DOMAIN doc \cup missing |-> IF f \in missing THEN Defaults[f] ELSE doc[f]]

NoEntries == [k \in {} |-> ""]

\* The zero values of the Go struct. A nil pointer is FALSE (prometheus, grpc)
\* or "" (secret, whose name is never empty); image is no pointer, so it is
\* always there.
Zero ==
    [database |-> "", port |-> 0, sslmode |-> "", username |-> "", password |-> "",
     secret |-> "", usernameKey |-> "", passwordKey |-> "", metrics |-> "",
     prometheus |-> FALSE, enabled |-> FALSE, promPort |-> 0,
     grpc |-> FALSE, grpcEnabled |-> FALSE, endpoint |-> "",
     image |-> TRUE, repository |-> "", tag |-> "", resources |-> "",
     podLabels |-> NoEntries, podAnnotations |-> NoEntries, serviceLabels |-> NoEntries]

\* The client unmarshals a stored document into the struct.
Decode(doc) == [f \in DOMAIN Zero |-> IF f \in DOMAIN doc THEN doc[f] ELSE Zero[f]]

\* Fields without omitempty, and structs, for which it has no effect.
AlwaysSent(go) ==
    {"database", "metrics", "image", "resources"}
        \cup (IF go.prometheus THEN {"enabled"} ELSE {})
        \cup (IF go.grpc THEN {"grpcEnabled"} ELSE {})

\* Mutant: enabled is marked omitempty.
EncodeOmittingFalse(go) ==
    [f \in {f \in DOMAIN Zero : go[f] # Zero[f]}
             \cup (AlwaysSent(go) \ {"enabled"}) |-> go[f]]

\* Mutant: username and password are not marked omitempty.
EncodeAllCredentials(go) ==
    [f \in {f \in DOMAIN Zero : go[f] # Zero[f]}
             \cup AlwaysSent(go) \cup {"username", "password"} |-> go[f]]

\* The client marshals the struct for an Update.
Encode(go) ==
    [f \in {f \in DOMAIN Zero : go[f] # Zero[f]} \cup AlwaysSent(go) |-> go[f]]

\* What an Update that touches only metadata makes of a stored spec.
RoundTrip(doc) == Default(Encode(Decode(doc)))

Ports == 1..65535
SSLModes == {"disable", "allow", "prefer", "require", "verify-ca", "verify-full"}

\* The validation markers, evaluated after defaulting.
Admits(doc) ==
    /\ {"username", "password"} \subseteq DOMAIN doc <=> "secret" \notin DOMAIN doc
    /\ "username" \in DOMAIN doc <=> "password" \in DOMAIN doc
    /\ \A f \in {"username", "password", "secret"} \cap DOMAIN doc : doc[f] # ""
    /\ \A f \in {"port", "promPort"} \cap DOMAIN doc : doc[f] \in Ports
    /\ "sslmode" \in DOMAIN doc => doc["sslmode"] \in SSLModes
=============================================================================
