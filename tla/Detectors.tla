------------------------------- MODULE Detectors --------------------------------
(***************************************************************************)
(* The table of the secrets scanner's line detectors, in its order, and    *)
(* what it takes for a captured value to be worth reporting.               *)
(*                                                                         *)
(* A value is a record [shape, entropic, quoted, codeRef]: its shape is    *)
(* what plausibleValue tells apart, entropic that its Shannon entropy      *)
(* reaches the detectors' 3 bits, quoted that a quote precedes it, codeRef *)
(* that it looks like a call, a member access or an identifier.            *)
(***************************************************************************)
EXTENDS Integers, Sequences, SequencesExt

Shapes ==
  {"literal", "number", "tiny", "blank", "angled", "interpolated", "variable", "markup",
   "spaced", "sentinel", "placeholder", "exampleHost"}
Values == [shape : Shapes, entropic : BOOLEAN, quoted : BOOLEAN, codeRef : BOOLEAN]

Generic == "generic"              \* matches by the syntax around a value
MinEntropy == "minEntropy"
RejectCodeRefs == "rejectCodeRefs"
KeyMaterial == "CWE-321"          \* without it, CWE-798
Comparison == "comparison"

D(rule, id, severity, flags) == [rule |-> rule, id |-> id, severity |-> severity, flags |-> flags]

DetectorTable == <<
  D("ZS-SEC-001", "aws-access-key", "critical", {}),
  D("ZS-SEC-002", "github-token", "critical", {}),
  D("ZS-SEC-003", "generic-api-key", "high", {Generic, MinEntropy, RejectCodeRefs}),
  D("ZS-SEC-004", "hardcoded-password", "high", {Generic, MinEntropy}),
  D("ZS-SEC-005", "private-key-pem", "critical", {KeyMaterial}),
  D("ZS-SEC-006", "sendgrid-api-key", "critical", {}),
  D("ZS-SEC-007", "slack-token", "high", {}),
  D("ZS-SEC-008", "stripe-api-key", "critical", {}),
  D("ZS-SEC-009", "google-cloud-api-key", "high", {}),
  D("ZS-SEC-010", "azure-secret", "high", {MinEntropy}),
  D("ZS-SEC-011", "jwt-token", "medium", {}),
  D("ZS-SEC-012", "mongodb-uri", "high", {Generic}),
  D("ZS-SEC-013", "postgresql-uri", "high", {Generic}),
  D("ZS-SEC-014", "mysql-uri", "high", {Generic}),
  D("ZS-SEC-015", "redis-uri", "high", {Generic}),
  D("ZS-SEC-016", "json-yaml-secret", "medium", {Generic, MinEntropy}),
  D("ZS-SEC-017", "twilio-api-key", "high", {}),
  D("ZS-SEC-018", "mailgun-api-key", "high", {}),
  D("ZS-SEC-019", "square-access-token", "high", {}),
  D("ZS-SEC-020", "pypi-token", "critical", {}),
  D("ZS-SEC-021", "npm-token", "critical", {}),
  D("ZS-SEC-022", "heroku-api-key", "high", {}),
  D("ZS-SEC-023", "vault-token", "high", {}),
  D("ZS-SEC-024", "discord-bot-token", "high", {}),
  D("ZS-SEC-025", "shopify-token", "high", {}),
  D("ZS-SEC-026", "openai-api-key", "high", {}),
  D("ZS-SEC-027", "hardcoded-password-comparison", "high", {Generic, Comparison}),
  D("ZS-SEC-028", "xml-credential", "high", {Generic}),
  D("ZS-SEC-029", "rpc-url-api-key", "high", {}),
  D("ZS-SEC-030", "totp-seed", "high", {Generic, MinEntropy, KeyMaterial}) >>

Weakness(d) == IF KeyMaterial \in d.flags THEN "CWE-321" ELSE "CWE-798"

\* A placeholder, a reference resolved at run time, markup, prose and a sentinel
\* are no credentials.
PlausibleValue(v) == v.shape \in {"literal", "number", "tiny"}

\* A value being compared is a test's, not a credential: except to a detector
\* whose shape is the comparison.
PlausibleSecret(v, context, comparison) ==
  PlausibleValue(v) /\ context \subseteq IF comparison THEN {"equality"} ELSE {}

LooksLikeCodeRef(v) == v.codeRef

------------------------------------------------------------------------------
(* The keys of dotenv and compose entries.                                    *)

KeyClasses == {"credential", "keyMaterial", "setting", "other"}

\* The weakness of a value stored under such a key; "" for none.
CredentialKeyCWE(class) ==
  CASE class = "credential" -> "CWE-798"
    [] class = "keyMaterial" -> "CWE-321"
    [] class \in {"setting", "other"} -> ""

CredentialValueOK(v) == v.shape \notin {"tiny", "number"} /\ PlausibleValue(v)
==============================================================================
