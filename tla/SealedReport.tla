---------------------------- MODULE SealedReport ----------------------------
(***************************************************************************)
(* What becomes of the report that a run has saved: it is posted,          *)
(* handleCreateVerdict hashes its content again, verifies the attestation  *)
(* document and stores the fields as columns; a buyer's browser rebuilds   *)
(* the content from what is served and hashes it a third time              *)
(* (web/src/verify/hash.ts).  A hash is its input; one field stands for    *)
(* all that are encoded and stored alike.                                  *)
(***************************************************************************)
EXTENDS CredentialHandOver, Sequences

CONSTANTS
    Nil,       \* a nil slice, JSON's null, SQL's NULL
    Contents,  \* the contents that a scan may seal
    Documents, \* how one may be signed: [leaf, bundle, at]
    NitroRoot, \* trustedNitroRoot, and the root that the page embeds
    NoRow

\* A field is a text or a list.  Optional: tagged omitempty.
Field(list, optional, column) ==
    [list |-> list, optional |-> optional, column |-> column]

\* AttestedContent and checks.Result; nullable columns were added later.
Names == {"account_id", "regions_warning", "accounts_listed", "projects_listed",
          "scanned_regions", "findings", "evidence"}
Fields == [f \in Names |->
    CASE f = "account_id"      -> Field(FALSE, FALSE, "not null")
      [] f = "regions_warning" -> Field(FALSE, TRUE, "nullable")
      [] f = "accounts_listed" -> Field(TRUE, TRUE, "not null")
      [] f = "projects_listed" -> Field(TRUE, TRUE, "nullable")
      [] f = "scanned_regions" -> Field(TRUE, FALSE, "not null")
      [] f = "findings"        -> Field(TRUE, FALSE, "json")
      [] f = "evidence"        -> Field(TRUE, TRUE, "json")]

\* A value is Nil, or the sequence of the characters it holds: plain ones, and
\* those that JSON or Go escapes (markup is one of < > &).
Characters == {"plain", "quote", "markup", "backspace"}

Forms == {"raw", "short", "unicode"}
Glyphs == [char : Characters, form : Forms]
Values == {Nil} \cup Seq(Characters)

\* What scans make: texts are never nil.
ASSUME ContentsAssumption ==
    /\ Nil \notin Seq(Characters) \cup Seq(Glyphs)
    /\ \A c \in Contents :
          /\ c \in [Names -> Values]
          /\ \A f \in Names : Fields[f].list \/ c[f] # Nil

VARIABLES
    posted,  \* the submission: [whole, content, sealed, signer, allow], or NoRow
    row,     \* the verdict as stored, or NoRow
    seen     \* what the browser says of it: unread, verified or failed

sealVars == <<posted, row, seen>>
reportVars == <<runVars, sealVars>>
-----------------------------------------------------------------------------
(* encoding/json *)

Empty(v) == v \in {Nil, << >>}

\* How a character is written by Go and by goJSONString.
GoForm == [ch \in Characters |->
    CASE ch = "plain" -> "raw"
      [] ch \in {"quote", "backspace"} -> "short"
      [] ch = "markup" -> "unicode"]
JsForm == [ch \in Characters |->
    CASE ch = "plain" -> "raw"
      [] ch = "quote" -> "short"
      [] ch \in {"markup", "backspace"} -> "unicode"]

Escape(v, form) ==
    IF v = Nil THEN Nil ELSE [i \in DOMAIN v |-> [char |-> v[i], form |-> form[v[i]]]]

\* json.Marshal: optional fields that are empty are left out.
Marshal(c) ==
    [f \in {g \in Names : ~(Fields[g].optional /\ Empty(c[g]))} |->
        Escape(c[f], GoForm)]

\* Any decoder: escapes are undone.
Text(v) == IF v = Nil THEN Nil ELSE [i \in DOMAIN v |-> v[i].char]

\* json.Decode into a zero report.
Decode(json) ==
    [f \in Names |-> IF f \in DOMAIN json THEN Text(json[f])
                     ELSE IF Fields[f].list THEN Nil ELSE << >>]
-----------------------------------------------------------------------------
(* verify.Verify and validateChain *)

SelfSigned(cert) == cert.name = cert.issuer
InForce(cert, at) == cert.from <= at /\ at <= cert.until

\* The certificates among these that a leaf leads to, all of them in force.
Above(leaf, others, at) ==
    LET certs == {c \in {leaf} \cup others : InForce(c, at)}
        closed == {S \in SUBSET certs :
                      /\ leaf \in certs => leaf \in S
                      /\ \A d \in S, c \in certs : d.issuer = c.name => c \in S}
    IN  {c \in certs : \A S \in closed : c \in S}

\* Wherever they stand in the bundle.
Bundled(doc) == {doc.bundle[i] : i \in DOMAIN doc.bundle}
RootsOf(doc, at) == {c \in Above(doc.leaf, Bundled(doc), at) : SelfSigned(c)}

\* Outcome.Mock is the opposite.
Genuine(doc) == NitroRoot \in RootsOf(doc, doc.at)

\* Mutant: certificates are judged at the time of the post.
VerifyNow(doc, allowMock) ==
    LET roots == RootsOf(doc, doc.at + 3)
    IN  roots # {} /\ (allowMock \/ NitroRoot \in roots)

\* The chain is judged at the document's own time.
Verify(doc, allowMock) ==
    RootsOf(doc, doc.at) # {} /\ (allowMock \/ Genuine(doc))

\* The page knows no mocks; the embedded root need not be in the bundle.
ValidateChain(doc) ==
    NitroRoot \in Above(doc.leaf, Bundled(doc) \cup {NitroRoot}, doc.at)

\* Documents as the two attesters make them: the chain is complete, and the
\* bundle of the hardware has its root.
ASSUME DocumentsAssumption ==
    /\ SelfSigned(NitroRoot)
    /\ \A d \in Documents :
          /\ d.at \in Nat /\ ~SelfSigned(d.leaf)
          /\ RootsOf(d, d.at) # {}
          /\ ValidateChain(d) => NitroRoot \in Bundled(d)
-----------------------------------------------------------------------------
(* handleCreateVerdict, INSERT and SELECT *)

\* Step 2 and step 4.
HashesAgree(sub) ==
    /\ Marshal(Decode(sub.body)) = sub.hash
    /\ sub.userData = sub.hash

\* emptyToNil; findings and evidence are marshalled again, into JSONB.
Column(c, f) ==
    CASE Fields[f].column = "json" ->
            IF f \in DOMAIN Marshal(c) THEN Text(Marshal(c)[f]) ELSE Nil
      [] Fields[f].column = "nullable" /\ ~Fields[f].list ->
            IF c[f] = << >> THEN Nil ELSE c[f]
      [] OTHER -> c[f]
RowOf(c) == [f \in Names |-> Column(c, f)]
Storable(r) == \A f \in Names : Fields[f].column = "not null" => r[f] # Nil

\* COALESCE and derefOrEmpty.
Selected(r) ==
    [f \in Names |-> IF Fields[f].column = "nullable" /\ r[f] = Nil THEN << >> ELSE r[f]]

\* verdictView has the tags of AttestedContent.
Served == Marshal(Selected(row.fields))
-----------------------------------------------------------------------------
(* hash.ts *)

\* Mutant: an array is an array.
BrowserContentListed(json) ==
    [f \in {g \in Names : ~Fields[g].optional \/ (g \in DOMAIN json /\ ~Empty(json[g]))} |->
        Escape(IF f \in DOMAIN json /\ json[f] # Nil THEN Text(json[f]) ELSE << >>, JsForm)]

\* buildAttestedContentForHashing: findings are passed through as they are.
BrowserContent(json) ==
    [f \in {g \in Names : ~Fields[g].optional \/ (g \in DOMAIN json /\ ~Empty(json[g]))} |->
        IF f \in DOMAIN json THEN Escape(Text(json[f]), JsForm) ELSE Nil]
-----------------------------------------------------------------------------
ReportInit ==
    /\ RunInit
    /\ posted = NoRow /\ row = NoRow /\ seen = "unread"

Submission(whole, c, sealed, d, allow) ==
    [whole |-> whole, content |-> c, sealed |-> sealed, signer |-> d, allow |-> allow]
Stored(c, sealed, d) ==
    [fields |-> RowOf(Decode(Marshal(c))), signer |-> d, mock |-> ~Genuine(d),
     userData |-> Marshal(sealed), hash |-> Marshal(c)]
ASSUME NoRowAssumption ==
    \A c, sealed \in Contents, d \in Documents, whole, allow \in BOOLEAN :
        NoRow \notin {Submission(whole, c, sealed, d, allow), Stored(c, sealed, d)}

\* After the run somebody posts its file, or, when there is none, the output of
\* a scan on a machine without an enclave (--mock-attest), to a server that may
\* allow mocks.  The document, one string in the file, may be another scan's.
Post ==
    /\ script.pc = "done" /\ posted = NoRow
    /\ \E c, sealed \in Contents, d \in Documents, allow \in BOOLEAN :
          LET local == ~Genuine(d)
              whole == local \/ saved = Size
              sub   == [body |-> Marshal(c), hash |-> Marshal(c),
                        userData |-> Marshal(sealed)]
          IN  /\ local <=> saved = NoFile
              /\ posted' = Submission(whole, c, sealed, d, allow)
              /\ row' = IF /\ whole /\ HashesAgree(sub) /\ Verify(d, allow)
                           /\ Storable(RowOf(Decode(sub.body)))
                        THEN Stored(c, sealed, d) ELSE NoRow
    /\ UNCHANGED <<runVars, seen>>

\* A buyer's browser: chain, signature, hash against both claims.
Read ==
    /\ row # NoRow /\ seen = "unread"
    /\ seen' = IF /\ ValidateChain(row.signer)
                  /\ BrowserContent(Served) = row.userData
                  /\ BrowserContent(Served) = row.hash
               THEN "verified" ELSE "failed"
    /\ UNCHANGED <<runVars, posted, row>>

ReportNext == (RunNext /\ UNCHANGED sealVars) \/ Post \/ Read

\* No step of the four processes waits for a human: what the server asks is
\* bounded by its timeouts.  Who posts the report and who reads it may not.
ReportSpec ==
    /\ ReportInit /\ [][ReportNext]_reportVars
    /\ WF_reportVars(EnclaveStep /\ UNCHANGED sealVars)
    /\ WF_reportVars(ServerStep /\ UNCHANGED sealVars)
    /\ WF_reportVars(Collector /\ UNCHANGED <<handVars, sealVars>>)
    /\ WF_reportVars(ScriptStep /\ UNCHANGED sealVars)
-----------------------------------------------------------------------------
\* The run, and the report behind it.
ReportTypeOK ==
    /\ RunTypeOK
    /\ posted # NoRow => posted.content \in Contents /\ posted.sealed \in Contents
    /\ row # NoRow => posted # NoRow /\ DOMAIN row.fields = Names
    /\ seen \in {"unread", "verified", "failed"}

\* One content, but for an empty list or text where JSON has none.
Same(c, d) ==
    \A f \in Names : \/ c[f] = d[f]
                     \/ Fields[f].optional /\ Empty(c[f]) /\ Empty(d[f])

\* A report is stored if and only if it arrived whole, its document seals this
\* very content, the document is of Nitro hardware or the server takes mocks,
\* and the organization and its regions were enumerated; and what the script
\* left of a run that nothing disturbed is whole (the four steps above
\* handleCreateVerdict).
StoredIffSealed ==
    posted # NoRow =>
        /\ row # NoRow <=> /\ posted.whole
                           /\ Same(posted.content, posted.sealed)
                           /\ Genuine(posted.signer) \/ posted.allow
                           /\ ~Empty(posted.content.accounts_listed)
                           /\ posted.content.scanned_regions # Nil
        /\ ~posted.whole => disturbed

\* What a browser reads is what was sealed in the enclave, and its hash says so
\* although the content was encoded by Go, by Postgres and by TypeScript in
\* between: nil findings stay null, what was left out stays out, an escape is
\* the same escape.  A mock never verifies, whatever the server allowed.  A
\* backspace or a form feed is the exception (hash.ts, rules 1 to 5).
ReadAsSealed ==
    row # NoRow =>
        /\ Same(Decode(Served), posted.sealed)
        /\ seen # "unread" =>
              (seen = "verified" <=>
                  /\ ~row.mock
                  /\ \A f \in Names : ~Empty(posted.sealed[f]) =>
                        \A i \in DOMAIN posted.sealed[f] :
                            posted.sealed[f][i] # "backspace")
=============================================================================
