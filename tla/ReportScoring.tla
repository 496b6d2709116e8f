---------------------------- MODULE ReportScoring ----------------------------
(***************************************************************************)
(* The rules of analyze in backend/analyzer.py, which turn what the probes *)
(* saw into two lists, checks (vulnerability_checks) and findings, and the *)
(* pass over them that sorts, scores, summarizes and stores the report.    *)
(* analyze awaits nothing in this part: a step is a rule.  The sums the    *)
(* rules add to score are overwritten unread and left out.                 *)
(*                                                                         *)
(* The names RInit, RNext and RSpec let one module extend this one and     *)
(* HostProbes, the part of analyze that comes before it.                   *)
(*                                                                         *)
(* A_x is A with the mistake x in it; no specification uses it.            *)
(***************************************************************************)
EXTENDS Naturals, Sequences, FiniteSets

CONSTANTS
    SecretLimit,   \* secrets reported, 8 in the code
    MaxSecrets,    \* bound on the secrets found
    MaxReports     \* bound on what the other rules report

ASSUME LimitAssumption == SecretLimit \in Nat
ASSUME BoundsAssumption == MaxSecrets \in Nat /\ MaxReports \in Nat

VARIABLES
    rule,       \* the rule that is next
    checks, findings,
    js_secrets, \* the kinds of the secrets found
    strong,     \* the other probes that gave the strict rule its evidence
    reports,    \* number of reports, for the bound
    result      \* what analyze returns

lists == <<checks, findings>>
rvars == <<rule, lists, js_secrets, strong, reports, result>>

Severities == {"CRITICAL", "HIGH", "MEDIUM", "LOW", "INFO", "UNKNOWN"}

\* add_finding and add_vuln, and with their defaults; evidence 0 is None.
Entry(title, category, severity, evidence, confidence, type) ==
    [title |-> title, category |-> category, severity |-> severity,
     evidence |-> evidence, confidence |-> confidence, type |-> type,
     status |-> ""]
Item(title, category, severity, evidence) ==
    Entry(title, category, severity, evidence, "MEDIUM", "generic")

\* What one turn of a rule adds to the lists.
Check(c)   == [checks |-> <<c>>, findings |-> <<>>]
Finding(f) == [checks |-> <<>>, findings |-> <<f>>]
Both(c, f) == [checks |-> <<c>>, findings |-> <<f>>]
Twin(x)    == Both(x, x)
\* the finding words the evidence in another way
Apart(x)   == Both(x, [x EXCEPT !.evidence = @ + 1])

NoResult == [score |-> 0, risk |-> "", confirmed |-> {}, possible |-> {},
             hardening |-> {}, surface |-> {}, informational |-> {},
             stored |-> {}]

RInit ==
    /\ rule = "target"
    /\ checks = <<>> /\ findings = <<>> /\ js_secrets = <<>>
    /\ strong = {} /\ reports = 0
    /\ result = NoResult

-----------------------------------------------------------------------------
(* the rules, in the order of the code *)

At(here, there) == rule = here /\ rule' = there

\* A probe saw nothing, or nothing more.
Pass(here, there) ==
    /\ At(here, there)
    /\ UNCHANGED <<lists, js_secrets, strong, reports, result>>

ToSet(s) == {s[i] : i \in DOMAIN s}
Reported == ToSet(checks \o findings)
\* a thing is probed once
Unseen(r) == \A x \in ToSet(r.checks \o r.findings), y \in Reported :
                x.title # y.title \/ x.evidence # y.evidence

\* It saw one of the reported things, and the rule goes on there.
Report(here, there, reported) ==
    /\ At(here, there)
    /\ reports < MaxReports /\ reports' = reports + 1
    /\ \E r \in reported : /\ Unseen(r)
                           /\ checks' = checks \o r.checks
                           /\ findings' = findings \o r.findings
    /\ UNCHANGED <<js_secrets, strong, result>>

Once(here, there, reported) ==
    Report(here, there, reported) \/ Pass(here, there)
\* a loop, or independent tests in a row
Each(here, there, reported) ==
    Report(here, here, reported) \/ Pass(here, there)

\* No host in the target, or one that does not resolve: analyze returns.
Unresolvable ==
    /\ At("target", "done")
    /\ \/ result' = [NoResult EXCEPT !.score = 100, !.risk = "HIGH"]
       \/ result' = [NoResult EXCEPT !.score = 90, !.risk = "HIGH",
                        !.stored = {Item("DNS Resolution Failed", "DNS", "HIGH", 1)}]
    /\ UNCHANGED <<lists, js_secrets, strong, reports>>

\* Without a response only the rules about the host follow.
Reach ==
    \/ Pass("target", "response")
    \/ Report("target", "host",
              {Twin(Item("Website Not Reachable", "Availability", "MEDIUM", 1))})

TransportRules ==
    {Both(Item("HTTP Without HTTPS", "SSL/TLS", "MEDIUM", 1),
          Item("HTTP Used Instead of HTTPS", "SSL/TLS", "MEDIUM", 1)),
     Check(Item("Server Error", "HTTP", "MEDIUM", 1)),
     Check(Item("Client Error", "HTTP", "LOW", 1))}

Header(severity, confidence, type) ==
    Entry("Missing Security Header", "Headers", severity,
          IF severity = "LOW" THEN 1 ELSE 2, confidence, type)
HeaderRules ==
    {Both(Header(s, "HIGH", "header_check"), Header(s, "MEDIUM", "generic")) :
        s \in {"MEDIUM", "LOW"}}
    \cup {Both(Item("Server Header Disclosure", "Headers", "LOW", 1),
               Item("Server Header Exposed", "Headers", "LOW", 1))}

\* cookies, CORS and the methods that OPTIONS names
AccessRules ==
    {Check(Item("Cookie Missing HttpOnly", "Cookies", "MEDIUM", 1)),
     Twin(Item("CORS Misconfiguration", "CORS", "MEDIUM", 1)),
     Both(Item("Dangerous HTTP Method Enabled", "HTTP Methods", "MEDIUM", 1),
          Item("Dangerous HTTP Methods", "HTTP Methods", "MEDIUM", 1))}

Response == Each("response", "secrets", TransportRules \cup HeaderRules \cup AccessRules)

\* A secret of each way JS_SECRET_RULES rates them.
SecretKinds ==
    {[title |-> "Private Key", severity |-> "CRITICAL", confidence |-> "HIGH",
      type |-> "private_key_exposed"],
     [title |-> "AWS Access Key", severity |-> "HIGH", confidence |-> "HIGH",
      type |-> "real_secret_exposed"],
     [title |-> "Bearer Token", severity |-> "HIGH", confidence |-> "MEDIUM",
      type |-> "credential_pattern"],
     [title |-> "Google API Key", severity |-> "MEDIUM", confidence |-> "MEDIUM",
      type |-> "credential_pattern"]}
Secret(kind, nr) == Entry(kind.title, "JavaScript Secrets", kind.severity, nr,
                          kind.confidence, kind.type)

\* check_js_secrets found one more; the first SecretLimit are reported.
FindSecret ==
    \/ /\ rule = "secrets" /\ Len(js_secrets) < MaxSecrets
       /\ \E kind \in SecretKinds :
             LET secret == Secret(kind, Len(js_secrets) + 1) IN
             /\ js_secrets' = Append(js_secrets, kind)
             /\ IF Len(js_secrets) < SecretLimit
                THEN /\ checks' = Append(checks, secret)
                     /\ findings' = Append(findings, secret)
                ELSE UNCHANGED lists
       /\ UNCHANGED <<rule, strong, reports, result>>
    \/ Pass("secrets", "endpoints")

EndpointRules ==
    {Finding(Item("API Endpoints Discovered", "Attack Surface", "INFO", 1)),
     Finding(Entry("API Documentation Reference Discovered", "Attack Surface",
                   "MEDIUM", 1, "MEDIUM", "frontend_reference"))}
Endpoints == Each("endpoints", "validation", EndpointRules)

Reflected(title, severity) ==
    Entry(title, "XSS", severity, IF severity = "LOW" THEN 1 ELSE 2, severity,
          "html_context")

\* Both pairs of payloads may show it; only the first of a type is kept.
SqlBehavior(title, confidence, type) ==
    Entry(title, "Injection", "MEDIUM", 1, confidence, type)

ValidationRules ==
    {Twin(SqlBehavior("SQL Error Pattern", "MEDIUM", "database_error_pattern")),
     Twin(SqlBehavior("Behavioral SQLi Difference", "LOW", "response_diff")),
     Finding(Reflected("Reflected Input", "LOW")),
     Both(Reflected("Possible Reflected XSS", "MEDIUM"),
          Reflected("Reflected Input", "MEDIUM"))}
Validation == Each("validation", "listing", ValidationRules)

ListingRules ==
    {Apart(Item("Directory Listing Enabled", "Exposure", "HIGH", 1))}
Listing == Once("listing", "host", ListingRules)

\* SPF and DMARC; without any TXT record SPF is not asked for.
MailIssue(nr) == Item("DNS Email Security Issue", "DNS", "LOW", nr)

\* certificate, mail records, robots.txt, security.txt
HostRules ==
    {Both(Item("SSL/TLS Problem", "SSL/TLS", "MEDIUM", 1),
          Item("SSL Problem", "SSL/TLS", "MEDIUM", 1)),
     Twin(Item("Suspicious robots.txt Entries", "Robots", "LOW", 1)),
     Finding(Item("security.txt Not Found", "Security Policy", "INFO", 0))}
    \cup {Twin(MailIssue(nr)) : nr \in 1..2}
Host == Each("host", "paths", HostRules)

\* One of SENSITIVE_PATHS: all have one name.
SensitivePath(nr) == Item("Sensitive Path Exposed", "Exposure", "HIGH", nr)
\* One of NIKTO_PATHS: each has its own.
NiktoPath(name, severity) == Item(name, "Nikto-like", severity, 1)

PathRules ==
    {Check(SensitivePath(nr)) : nr \in 1..2}
    \cup {Apart(NiktoPath(".env File Exposed", "HIGH")),
          Apart(NiktoPath("Debug Page Exposed", "MEDIUM"))}
Paths == Each("paths", "wordpress", PathRules)

WordPressRules ==
    {Apart(Item("WordPress Directory Discovery", "WordPress", "INFO", 1)),
     Finding(Item("WPScan: component", "WordPress", "HIGH", 1))}
    \cup {Apart(Item("WPScan Vulnerabilities Detected", "WordPress", s,
                    IF s = "HIGH" THEN 1 ELSE 3)) : s \in {"HIGH", "MEDIUM"}}
WordPress == Each("wordpress", "exposures", WordPressRules)

\* ADVANCED_EXPOSURE_PATHS as classify_exposure_status rates the answer
Exposure(title, category, severity, confidence, type) ==
    Apart(Entry(title, category, severity, 1, confidence, type))

ExposureRules ==
    {Finding(Entry("Admin Panel Detected", "Admin/Auth", "INFO", 1, "HIGH",
                   "status_code"))}
    \cup {Exposure("API Docs Detected", "API Documentation", "HIGH", confidence,
                   "keyword_status_match") : confidence \in {"HIGH", "MEDIUM"}}
    \cup {Exposure("Debug Endpoint Detected", "Debug", "HIGH", confidence,
                   "keyword_status_match") : confidence \in {"HIGH", "MEDIUM"}}
Exposures == Each("exposures", "graphql", ExposureRules)

\* openapi.json is public
ExposedSchema ==
    /\ rule = "exposures" /\ "schema" \notin strong
    /\ LET r == Exposure("OpenAPI Schema Detected", "API Documentation", "HIGH",
                         "HIGH", "public_schema") IN
       /\ checks' = checks \o r.checks
       /\ findings' = findings \o r.findings
    /\ strong' = strong \cup {"schema"}
    /\ UNCHANGED <<rule, js_secrets, reports, result>>

\* The endpoint refused the query, or answered it.
GraphqlAnswer(title, severity, type) ==
    Entry(title, "GraphQL", severity, 1, "HIGH", type)

GraphQL ==
    \/ Once("graphql", "context",
            {Finding(GraphqlAnswer("GraphQL Introspection Check", "INFO",
                                   "status_code"))})
    \/ /\ At("graphql", "context")
       /\ checks' = Append(checks, GraphqlAnswer("GraphQL Introspection Enabled",
                                                 "HIGH", "graphql_introspection"))
       /\ findings' = Append(findings, GraphqlAnswer("GraphQL Introspection Check",
                                                 "HIGH", "graphql_introspection"))
       /\ strong' = strong \cup {"introspection"}
       /\ UNCHANGED <<js_secrets, reports, result>>

\* ports, subdomains, network owner, a target that is an address
ContextRules ==
    {Twin(Item("Risky Open Ports", "Ports", "MEDIUM", 1)),
     Finding(Item("Subdomains Discovered", "Subdomains", "INFO", 0)),
     Finding(Item("Whois / ASN Information Collected", "Whois/ASN", "INFO", 1)),
     Finding(Entry("IP Target Scan", "IP Intelligence", "INFO", 1, "HIGH",
                   "target_type"))}
Context == Each("context", "cves", ContextRules)

\* Advisory without a version in the texts; else rated by NVD, and with high
\* confidence when there is a public exploit.
Cve(severity, confidence, status) ==
    [Entry("CVE Intelligence", "CVE Intelligence", severity, 1, confidence,
           "cve_intelligence") EXCEPT !.status = status]

CveRules ==
    {Twin(Cve("INFO", "LOW", "INFO"))}
    \cup {Twin(Cve(s, "MEDIUM", "POSSIBLE")) : s \in Severities}
    \cup {Twin(Cve(s, "HIGH", "POSSIBLE")) : s \in {"CRITICAL", "HIGH"}}
Cves == Each("cves", "conclude", CveRules)

-----------------------------------------------------------------------------
(* the pass over the lists *)

\* the evidence is not part of the key
Key_by_title(x) == <<x.title, x.severity>>
Key(x) == <<x.title, x.severity, x.evidence>>
\* dedupe_dicts; what it keeps has different keys, so a set will do
Kept(s) == {s[i] : i \in {i \in DOMAIN s : \A j \in 1..(i - 1) : Key(s[j]) # Key(s[i])}}
Combined == Kept(checks \o findings)

DetectionStatus(x) ==
    IF x.severity \in {"CRITICAL", "HIGH"} /\ x.confidence = "HIGH" THEN "CONFIRMED"
    ELSE IF x.severity \in {"LOW", "INFO"} THEN "INFO" ELSE "POSSIBLE"
Status(x) == IF x.status = "" THEN DetectionStatus(x) ELSE x.status

StrongEvidence == {"database_error_pattern", "graphql_introspection", "public_schema",
                   "public_file", "private_key_exposed", "real_secret_exposed",
                   "confirmed_exposure"}

\* the evidence does not have to be strong
IsConfirmed_anyhow(x) ==
    x.confidence = "HIGH" /\ x.severity \in {"CRITICAL", "HIGH"}
IsConfirmed(x) ==
    /\ x.confidence = "HIGH"
    /\ x.severity \in {"CRITICAL", "HIGH"}
    /\ x.type \in StrongEvidence

Hardening == {"Headers", "Cookies", "DNS", "Security Policy", "SSL/TLS"}
Surface == {"Attack Surface", "API Documentation", "Admin/Auth", "GraphQL",
            "Subdomains", "Whois/ASN", "IP Intelligence", "Ports", "Robots",
            "CVE Intelligence"}

\* separate_results
Section(x) ==
    IF IsConfirmed(x) THEN "confirmed"
    ELSE IF x.category \in Hardening THEN "hardening"
    ELSE IF x.category \in Surface THEN "surface"
    ELSE IF Status(x) = "POSSIBLE" /\ x.severity \in {"CRITICAL", "HIGH", "MEDIUM"}
         THEN "possible" ELSE "informational"

Sorted == [section \in {"confirmed", "possible", "hardening", "surface",
                       "informational"} |-> {x \in Combined : Section(x) = section}]

Rated(items, severity) == Cardinality({x \in items : x.severity = severity})
AtMost100(n) == IF n > 100 THEN 100 ELSE n
\* calculate_strict_score; INFO and UNKNOWN weigh nothing
StrictScore(confirmed) ==
    AtMost100(45 * Rated(confirmed, "CRITICAL") + 30 * Rated(confirmed, "HIGH")
              + 12 * Rated(confirmed, "MEDIUM") + 3 * Rated(confirmed, "LOW"))
Risk(score) == IF score >= 75 THEN "CRITICAL" ELSE IF score >= 45 THEN "HIGH"
               ELSE IF score >= 20 THEN "MEDIUM" ELSE "LOW"

\* build_structured_storage: of the checks only those with a name not stored yet
StoredFindings_named == \* the findings too
    {findings[i] : i \in {i \in DOMAIN findings :
         \A j \in 1..(i - 1) : findings[j].title # findings[i].title}}
StoredFindings == Kept(findings)
Stored ==
    StoredFindings \cup
    {checks[i] : i \in {i \in DOMAIN checks :
        /\ \A f \in ToSet(findings) : f.title # checks[i].title
        /\ \A j \in 1..(i - 1) : checks[j].title # checks[i].title}}

\* The rest of analyze, and its return.
Assembled ==
    LET sorted == Sorted
        score == StrictScore(sorted["confirmed"])
    IN [score |-> score, risk |-> Risk(score),
        confirmed |-> sorted["confirmed"], possible |-> sorted["possible"],
        hardening |-> sorted["hardening"], surface |-> sorted["surface"],
        informational |-> sorted["informational"], stored |-> Stored]

Assemble ==
    /\ At("conclude", "done")
    /\ result' = Assembled
    /\ UNCHANGED <<lists, js_secrets, strong, reports>>

RNext ==
    \/ Unresolvable \/ Reach \/ Response \/ FindSecret \/ Endpoints \/ Validation
    \/ Listing \/ Host \/ Paths \/ WordPress \/ Exposures \/ ExposedSchema
    \/ GraphQL \/ Context \/ Cves \/ Assemble

RSpec == RInit /\ [][RNext]_rvars

-----------------------------------------------------------------------------
(* properties *)

Analyzed == rule = "done" /\ checks \o findings # <<>>

Shown(title) ==
    {i \in DOMAIN js_secrets : i <= SecretLimit /\ js_secrets[i].title = title}

\* The score of a report (calculate_strict_score, 3178-3207) follows from what
\* the probes really saw, however the rules worded, repeated and merged it: 45
\* for each private key and 30 for each real secret among those reported, and
\* for a public schema or GraphQL introspection 30 in each of the two lists.  A
\* heuristic hit, whatever its severity, moves neither score nor risk.
ScoreFollowsObservations ==
    Analyzed =>
        /\ result.score = AtMost100(45 * Cardinality(Shown("Private Key"))
                                    + 30 * Cardinality(Shown("AWS Access Key"))
                                    + 60 * Cardinality(strong))
        /\ result.risk = Risk(result.score)

SectionsOf(r) == <<r.confirmed, r.possible, r.hardening, r.surface, r.informational>>

\* Deduplication and sorting (430-441, 3067-3175) lose nothing: each reported
\* thing is, by title, severity and evidence, in one section and no other, and
\* when one of its copies has strong evidence that section is the confirmed one.
NothingLost ==
    Analyzed => \A x \in Reported :
        LET here == {n \in 1..5 : \E y \in SectionsOf(result)[n] :
                        /\ y.title = x.title /\ y.severity = x.severity
                        /\ y.evidence = x.evidence}
        IN /\ Cardinality(here) = 1
           /\ x.type \in StrongEvidence /\ x.confidence = "HIGH"
                 /\ x.severity \in {"CRITICAL", "HIGH"} => here = {1}

\* The rows for the database (2741-2813) drop a check whose name a stored finding
\* has already; yet every title is stored with every severity it was reported at.
StoredAsReported ==
    Analyzed => \A x \in Reported : \E row \in result.stored :
        row.title = x.title /\ row.severity = x.severity

(* what the code or its documents say and the code does not do *)

\* Decisions.md, line 9: "No duplicate lists or parallel copies of the same
\* fact."  A public schema or an open introspection is one fact; the confirmed
\* section holds it once.
NoParallelCopies ==
    \A x, y \in result.confirmed :
        x.type = y.type /\ x.type \in {"public_schema", "graphql_introspection"} => x = y

-----------------------------------------------------------------------------
(* The inductive invariant behind the three safety properties. *)

Rules == {"target", "response", "secrets", "endpoints", "validation", "listing",
          "host", "paths", "wordpress", "exposures", "graphql", "context", "cves",
          "conclude", "done"}

RTypeOk ==
    /\ rule \in Rules
    /\ checks \in Seq(ToSet(checks)) /\ findings \in Seq(ToSet(findings))
    /\ \A x \in Reported : x.severity \in Severities
    /\ js_secrets \in Seq(SecretKinds)
    /\ strong \subseteq {"schema", "introspection"}

\* the rules run only on lists that started empty
StartsEmpty == rule = "target" => checks = <<>> /\ findings = <<>>

PublicSchema(nr) ==
    Entry("OpenAPI Schema Detected", "API Documentation", "HIGH", nr, "HIGH",
          "public_schema")
OpenIntrospection(title) == GraphqlAnswer(title, "HIGH", "graphql_introspection")

\* The items the strict rule is to confirm.
StrongItems ==
    {Secret(js_secrets[i], i) : i \in Shown("Private Key") \cup Shown("AWS Access Key")}
    \cup (IF "schema" \in strong THEN {PublicSchema(nr) : nr \in 1..2} ELSE {})
    \cup (IF "introspection" \in strong
          THEN {OpenIntrospection("GraphQL Introspection Enabled"),
                OpenIntrospection("GraphQL Introspection Check")} ELSE {})

\* Items under a name and severity that the strict rule may confirm.
StrongName(x) ==
    \/ x.title \in {"Private Key", "AWS Access Key", "OpenAPI Schema Detected",
                    "GraphQL Introspection Enabled"}
    \/ x.title = "GraphQL Introspection Check" /\ x.severity = "HIGH"

\* Each of them is there, and nothing else has strong evidence or such a name.
ConfirmedRight ==
    /\ StrongItems \subseteq Reported
    /\ \A x \in Reported : StrongName(x) \/ IsConfirmed(x) => x \in StrongItems

\* The checks under a name no finding has: the name settles their severity.
LoneNames ==
    ({"Sensitive Path Exposed", "GraphQL Introspection Enabled"} \X {"HIGH"})
    \cup ({"HTTP Without HTTPS", "Server Error", "SSL/TLS Problem",
           "Cookie Missing HttpOnly", "Possible Reflected XSS",
           "Dangerous HTTP Method Enabled"} \X {"MEDIUM"})
    \cup ({"Client Error", "Server Header Disclosure"} \X {"LOW"})
Name(x) == <<x.title, x.severity>>
Lone(title) == \E severity \in Severities : <<title, severity>> \in LoneNames

\* Every other check has a finding of its name and severity.
ChecksMatched ==
    /\ \A f \in ToSet(findings) : ~Lone(f.title)
    /\ \A c \in ToSet(checks) :
          Name(c) \in LoneNames \/ \E f \in ToSet(findings) : Name(f) = Name(c)

ResultRight == Analyzed => result = Assembled

RInv == RTypeOk /\ StartsEmpty /\ ConfirmedRight /\ ChecksMatched /\ ResultRight
=============================================================================
