------------------------------ MODULE MCMonitor ------------------------------
(***************************************************************************)
(* Small instances of MonitorReconciler.                                   *)
(***************************************************************************)
EXTENDS MonitorReconciler

CONSTANTS l1, v1, v2, noContent, noSpec, noConfig, edited

Inline(preset, custom, ls, w) ==
    [cred |-> "inline", libs |-> ls, preset |-> preset, custom |-> custom,
     workload |-> w]
WithSecret(ls, w) ==
    [cred |-> "secret", libs |-> ls, preset |-> "known", custom |-> FALSE,
     workload |-> w]

\* Custom metrics come and go; the credentials are inline.
PlainSpecs == {Inline("known", FALSE, <<>>, 1), Inline("known", TRUE, <<>>, 1)}

\* A monitor that is only created and deleted.
OneSpec == {Inline("known", TRUE, <<>>, 1)}
OneSecretSpec == {WithSecret(<<>>, 1)}

\* The workload changes; the credentials are in a Secret.
SecretSpecs == {WithSecret(<<>>, 1), WithSecret(<<>>, 2)}

\* Credentials and metrics from elsewhere.
ReferringSpecs == {WithSecret(<<l1>>, 1)}

\* A preset pgwatch does not know, which custom metrics make fatal.
RecoveringSpecs == {WithSecret(<<>>, 1), Inline("unknown", TRUE, <<>>, 1)}

\* Clusters with and without the Secret, the ServiceMonitor CRD and the library.
Start(hasSecret, hasCRD, content) ==
    [secret |-> hasSecret, smCRD |-> hasCRD, lib |-> [l \in Libraries |-> content]]
Bare == {Start(FALSE, FALSE, NoContent)}
WithTheSecret == {Start(TRUE, FALSE, NoContent)}
Full == {Start(TRUE, TRUE, NoContent)}
Referred == {Start(TRUE, FALSE, v1)}
=============================================================================
