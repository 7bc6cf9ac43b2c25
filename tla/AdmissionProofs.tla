---------------------------- MODULE AdmissionProofs ----------------------------
(***************************************************************************)
(* What the trip through the Go struct does to a document, for every       *)
(* document.                                                               *)
(***************************************************************************)
EXTENDS Admission, TLAPS

\* The fields an Update sends.
Sent(go) == {f \in DOMAIN Zero : go[f] # Zero[f]} \cup AlwaysSent(go)

Fields ==
    {"database", "port", "sslmode", "username", "password", "secret", "usernameKey",
     "passwordKey", "metrics", "prometheus", "enabled", "promPort", "grpc",
     "grpcEnabled", "endpoint", "image", "repository", "tag", "resources",
     "podLabels", "podAnnotations", "serviceLabels"}

LEMMA ZeroFields == DOMAIN Zero = Fields
  BY DEF Zero, Fields

\* The zero values of the fields with a rule or a default, by type.
LEMMA ZeroStrings ==
    \A f \in {"sslmode", "username", "password", "secret", "usernameKey",
              "passwordKey", "endpoint", "repository", "tag"} : Zero[f] = ""
  <1>1. /\ Zero["sslmode"] = "" /\ Zero["username"] = "" /\ Zero["password"] = ""
        /\ Zero["secret"] = "" /\ Zero["usernameKey"] = "" /\ Zero["passwordKey"] = ""
        /\ Zero["endpoint"] = "" /\ Zero["repository"] = "" /\ Zero["tag"] = ""
    BY DEF Zero
  <1> QED
    BY <1>1

LEMMA ZeroNumbers == \A f \in {"port", "promPort"} : Zero[f] = 0
  <1>1. Zero["port"] = 0 /\ Zero["promPort"] = 0
    BY DEF Zero
  <1> QED
    BY <1>1

LEMMA ZeroFlags ==
    \A f \in {"prometheus", "enabled", "grpc", "grpcEnabled"} : Zero[f] = FALSE
  <1>1. /\ Zero["prometheus"] = FALSE /\ Zero["enabled"] = FALSE
        /\ Zero["grpc"] = FALSE /\ Zero["grpcEnabled"] = FALSE
    BY DEF Zero
  <1> QED
    BY <1>1

LEMMA DefaultedFields ==
    DOMAIN Defaults = {"port", "sslmode", "usernameKey", "passwordKey", "enabled",
                       "promPort", "grpcEnabled", "repository", "tag"}
  BY DEF Defaults

LEMMA PortDefaults == Defaults["port"] \in Ports /\ Defaults["promPort"] \in Ports
                      /\ 0 \notin Ports
  BY DEF Defaults, Ports

LEMMA DefaultStrings ==
    /\ Defaults["sslmode"] = "disable"
    /\ Defaults["usernameKey"] = "username" /\ Defaults["passwordKey"] = "password"
    /\ Defaults["repository"] = "cybertecpostgresql/pgwatch" /\ Defaults["tag"] = "5.1.0"
  BY DEF Defaults

LEMMA DefaultNumbers == Defaults["port"] = 5432 /\ Defaults["promPort"] = 9187
  BY DEF Defaults

LEMMA DefaultFlags == Defaults["enabled"] = TRUE /\ Defaults["grpcEnabled"] = FALSE
  BY DEF Defaults

LEMMA PortNumbers == Defaults["promPort"] \in Nat /\ Zero["promPort"] \in Nat
  BY DEF Defaults, Zero

LEMMA DecodedField ==
    ASSUME NEW doc, NEW f \in Fields
    PROVE  Decode(doc)[f] = IF f \in DOMAIN doc THEN doc[f] ELSE Zero[f]
  BY ZeroFields DEF Decode

LEMMA DefaultedField ==
    ASSUME NEW doc, NEW f
    PROVE  /\ f \in DOMAIN Default(doc) <=>
                 \/ f \in DOMAIN doc
                 \/ f \in DOMAIN Defaults /\ Parent[f] \in DOMAIN doc
           /\ f \in DOMAIN doc => Default(doc)[f] = doc[f]
           /\ f \in DOMAIN Default(doc) /\ f \notin DOMAIN doc => Default(doc)[f] = Defaults[f]
  BY DEF Default

LEMMA SentFields == \A go : Sent(go) \subseteq Fields
  BY ZeroFields DEF Sent, AlwaysSent, Fields

\* A field of a spec that has been through the struct: what was sent, or the default.
LEMMA RoundTripField ==
    ASSUME NEW doc, NEW f \in Fields
    PROVE  LET go == Decode(doc) IN
           /\ f \in DOMAIN RoundTrip(doc) <=>
                 f \in Sent(go) \/ (f \in DOMAIN Defaults /\ Parent[f] \in Sent(go))
           /\ f \in Sent(go) => RoundTrip(doc)[f] = go[f]
           /\ f \in DOMAIN RoundTrip(doc) /\ f \notin Sent(go) =>
                 RoundTrip(doc)[f] = Defaults[f]
  <1> DEFINE go == Decode(doc)  e == Encode(go)
  <1>1. DOMAIN e = Sent(go) /\ \A g \in Sent(go) : e[g] = go[g]
    BY DEF Encode, Sent
  <1>2. RoundTrip(doc) = Default(e)
    BY DEF RoundTrip
  <1> HIDE DEF e, go
  <1>3. /\ f \in DOMAIN RoundTrip(doc) <=>
                 f \in Sent(go) \/ (f \in DOMAIN Defaults /\ Parent[f] \in Sent(go))
        /\ f \in Sent(go) => RoundTrip(doc)[f] = go[f]
        /\ f \in DOMAIN RoundTrip(doc) /\ f \notin Sent(go) =>
                 RoundTrip(doc)[f] = Defaults[f]
    BY <1>1, <1>2, DefaultedField
  <1> QED
    BY <1>3 DEF go

\* What the rules say, one by one.
LEMMA AdmittedCredentials ==
    ASSUME NEW doc, Admits(doc), NEW f \in {"username", "password", "secret"},
           f \in DOMAIN doc
    PROVE  doc[f] # ""
  BY Zenon DEF Admits

LEMMA AdmittedPorts ==
    ASSUME NEW doc, Admits(doc), NEW f \in {"port", "promPort"}, f \in DOMAIN doc
    PROVE  doc[f] \in Ports
  BY Zenon DEF Admits

LEMMA AdmittedSSLMode ==
    ASSUME NEW doc, Admits(doc), "sslmode" \in DOMAIN doc
    PROVE  doc["sslmode"] \in SSLModes
  BY Zenon DEF Admits

\* The operator's own Update is admitted whenever the stored document was.
THEOREM RoundTripAdmitted ==
    ASSUME NEW doc, Admits(doc)
    PROVE  Admits(RoundTrip(doc))
  <1> DEFINE go == Decode(doc)  new == RoundTrip(doc)
  <1>1. ASSUME NEW f \in {"username", "password", "secret"}
        PROVE  /\ f \in DOMAIN new <=> f \in DOMAIN doc
               /\ f \in DOMAIN new => new[f] # ""
    <2>1. f \in Fields /\ f \notin DOMAIN Defaults /\ f \notin AlwaysSent(go) /\ Zero[f] = ""
      BY ZeroStrings, DefaultedFields DEF Fields, AlwaysSent
    <2>2. f \in Sent(go) <=> go[f] # ""
      BY <2>1, ZeroFields DEF Sent
    <2>3. go[f] # "" <=> f \in DOMAIN doc
      BY <2>1, DecodedField, AdmittedCredentials
    <2> QED
      BY <2>1, <2>2, <2>3, RoundTripField
  <1>2. ASSUME NEW f \in {"port", "promPort"}, f \in DOMAIN new
        PROVE  new[f] \in Ports
    <2>1. f \in Fields /\ f \notin AlwaysSent(go) /\ Zero[f] = 0
      BY ZeroNumbers DEF Fields, AlwaysSent
    <2>2. f \in Sent(go) <=> go[f] # 0
      BY <2>1, ZeroFields DEF Sent
    <2>3. f \in DOMAIN doc => doc[f] \in Ports
      BY AdmittedPorts
    <2>4. Defaults[f] \in Ports
      BY PortDefaults
    <2> QED
      BY <1>2, PortDefaults, <2>1, <2>2, <2>3, <2>4, RoundTripField, DecodedField
  <1>3. ASSUME "sslmode" \in DOMAIN new PROVE new["sslmode"] \in SSLModes
    <2>1. "sslmode" \in Fields /\ "sslmode" \notin AlwaysSent(go) /\ Zero["sslmode"] = ""
      BY ZeroStrings DEF Fields, AlwaysSent
    <2>2. "sslmode" \in Sent(go) <=> go["sslmode"] # ""
      BY <2>1, ZeroFields DEF Sent
    <2>3. "sslmode" \in DOMAIN doc => doc["sslmode"] \in SSLModes
      BY AdmittedSSLMode
    <2>4. Defaults["sslmode"] \in SSLModes
      BY DEF Defaults, SSLModes
    <2>5. go["sslmode"] # "" => go["sslmode"] \in SSLModes
      BY <2>1, <2>3, DecodedField
    <2>6. \/ "sslmode" \in Sent(go) /\ new["sslmode"] = go["sslmode"]
          \/ new["sslmode"] = Defaults["sslmode"]
      BY <1>3, <2>1, RoundTripField
    <2> HIDE DEF new, go
    <2> QED
      BY <2>2, <2>4, <2>5, <2>6
  <1> HIDE DEF new
  <1>4. Admits(new)
    BY <1>1, <1>2, <1>3 DEF Admits
  <1> QED
    BY <1>4 DEF new
=============================================================================
