# Formal models of ZeroDock

TLA+ modules, TLC configurations and TLAPS proofs about the program in `src/`:
an enclave scanner that produces an attested report about a vendor's cloud
accounts, a script that runs it, a backend that verifies and keeps the reports,
and share links under which buyers read them. `PROJECT.json` maps every
definition that models code to its lines.

To check: `tlc -config <cfg> <module>` for a run (the table below),
`tlapm` on the eight `...Proofs` modules for the proofs.

## The system

### Components

| Component | State it keeps | Operations | What makes it hard | Correct means |
|---|---|---|---|---|
| Verdict store (`internal/store`, `migrations`) | `share_links`, `verdicts`, `account_history` in Postgres | `CreateVerdict` in one READ COMMITTED transaction | concurrent posts, retries, faults at any statement, lost commit acknowledgements, reports out of attested order | a verdict is whole or absent, one per scan, one token per account, answers are true |
| Share link reads (`internal/api` GET handlers) | none | latest, history, control history: two statements each, no transaction | commits and revocations between the statements, limits, ties | no stale or missing verdict, revoked links stay dark, no lost transition |
| Ingestion checks (`handleCreateVerdict`, `validateOrganizationScope`) | none | accept or refuse a posted report | written apart from the scanner whose reports they judge | what the scanner seals is what they take |
| Scanner (`cmd/scanner`) | the report under construction | identity, organization, accounts, aggregation, providers, attestation | any provider call may fail; partial scopes | nothing that was not looked at looks clean |
| Report delivery (`deliverReport`, `SendReport`, `collect-report.py`, `run-enclave.sh`) | vsock connections, the saved file, helper processes | three attempts, one accept, wait, cleanup | resets, death of the enclave, Ctrl-C and SIGTERM, no acknowledgement | a run that nothing disturbs delivers; nothing is left behind |
| Supabase row probe and relay (`internal/supabase`, `NewHTTPClient`, `supabase-data-relay.py`) | idle connections; a semaphore, a total | one GET per table; a thread per connection | slots at their limit, stale pooled connections, resets half way | limits hold, every slot comes back, no partial observation |
| Checks and their runner (`internal/checks`, `internal/gcp`, `internal/azure`, `internal/supabase`) | findings, errors and counts of one run | a visit of every region; a list, then calls about each item | the account changes between the calls, any call may fail, lists have pages | what is bad is named, what is named is bad, an error never looks like a pass, "not in use" means absent |
| Scope drift and diff (`internal/scope`, `internal/diff`, `web/src/verify`) | none | compare two snapshots, in Go and in TypeScript | two implementations | both find the same changes |
| Scope enumeration (`internal/providers/organization.go`, `supabase.go`, `internal/gcp/client.go`, `internal/azure/client.go`) | the list so far, the page tokens, the recursion | one call per page; AWS accounts, GCP folders and projects, Azure groups and subscriptions, Supabase projects | the estate changes during the walk, pages may be empty, any call may fail | what is there all the while is listed once, what is not is not; a failure is never a smaller scope |
| Onboarding (`internal/api/onboarding.go`, `internal/providers/onboarding.go`, `web/src/OnboardPage.tsx`) | `onboardings`; the page's phase and status | create; status by concurrent role probes; the page's polling | up to ten goroutines, one counter, roles that appear meanwhile, lost answers | the count lies between what was surely and what was possibly connected; the page ends up with the truth |
| Credential hand-over (`serve-credentials.py`, `FetchCredentials`) | the server's loop, one connection | one connection read to its end | no deadline; a server that dies or whose metadata service does not answer | the scanner starts with whole credentials or fails; no server outlives the script |
| Attestation, verification (`internal/attest`, `internal/verify`, `web/src/verify`) | none | encode and hash, verify chain and hash, store, encode and hash again in TypeScript | one content encoded in two languages, with Postgres in between; certificates that have expired meanwhile | stored if and only if sealed; still hashes to what was sealed when a browser reads it |
| Buyer page (`web/src`) | React state: the verdict, the history, the pair of scans picked, the autofill | load, verify in the browser, compare two scans | several asynchronous requests about a ledger that moves on | shows only what it verified, and parts that agree |
| Questionnaire autofill (`internal/questionnaire`) | none | match questions to controls, fill a table, audit the mapping | many ways to match, several clouds behind one answer, tables that were filled before | an answer only where the evidence supports it; what the customer typed comes back |
| Start-up, build, deployment (`cmd/api`, `Dockerfile`, `deploy`) | configuration | read it, wire the parts | none of their own | |

They interact as follows. The scanner takes credentials from the parent, calls
AWS and the other providers over vsock proxies, seals a report and sends it to
the collector, whose end is the script's sign to tear down. Somebody posts the
saved report to the backend, which decodes it, hashes it again, verifies the
document and stores it. Buyers read by token; the page rebuilds the content,
verifies it once more, then loads the history, verifies every entry and compares
two of them. A questionnaire is answered from the latest verdict.

### What is modelled

| Module | Models | State and actions |
|---|---|---|
| `SerialLedger` | what the store promises | `token`, `accepted`, `firstSeen`, `revoked`; `Accept` takes a whole report at once, `Revoke` |
| `VerdictLedger` | `CreateVerdict` as Postgres runs it | tables as committed, one program counter and the local variables for each request; one action for each SQL statement, `Fail` for a fault at any of them, `Commit` whose acknowledgement may be lost |
| `VerdictLedgerProofs` | its safety, for all constants; that it implements `SerialLedger` | the inductive invariant `IInv`; `IInv` strengthened to `SInv`, a step simulation over it |
| `ShareReads` | the GET handlers over `SerialLedger` | one request at a time (readers write nothing): `Send`, `ResolveLive`/`ResolveDead` (first statement), `HandleLatest`/`HandleHistory`/`HandleControlHistory` (second statement and the rendering); `Ask` for a client that is no page |
| `ScopeDrift` | `scope.Detect`, `diff.Reports` and their TypeScript mirrors | no state: the sets of events between two reports |
| `BuyerPage` | the page of a share link: `App`, `ScopeSection`, `QuestionnaireAutofill` | extends `ShareReads` and `ScopeDrift`: the browser's clock, the phase of each part; requests go out with `Send`, one action for each effect, answer and choice of the user |
| `ReadsProofs` | the safety of reading and of the page | the inductive invariants `PageInv`, `OrderInv` and `StoryInv` |
| `ScanScope` | `run` of the scanner up to the sealed content, then the ingestion checks | the report's scope fields, every check's result per account or project; one action per phase, one turn of the account loop per action |
| `Questionnaire` | what a buyer is told of an accepted report: the autofill, the mapping's audit, the derived claims | extends `ScanScope`, from whose accepted reports it answers: the table uploaded, the table that came back, the totals; `Autofill` |
| `ScopeProofs`, `QuestionnaireProofs` | the safety of the scan; of what a questionnaire is told of it | the inductive invariants `ScanInv`; `SheetInv` and `StepInv` |
| `ReportDelivery` | delivery, collector, script | a program counter for each of the three processes, one record per vsock connection |
| `CredentialHandOver` | the whole run of `run-enclave.sh` | extends `ReportDelivery`: the server, its connection and what the scanner holds; each step is one of the delivery's, or leaves its state alone |
| `SealedReport` | hash, chain, storage and rendering of the report that a run saved | extends `CredentialHandOver`; no state but the submission, the row and the browser's word: `Post` and `Read` over three encoders (`Marshal`, `Column`, `BrowserContent`) and two chain validations |
| `ReportDeliveryProofs` | the safety of the three | the inductive invariants `DInv`, `HandInv` and `SealInv`, the step simulations of a run by the delivery and of a report by the run |
| `DataRelay` | the row probe, the http.Transport's pool, the relay's threads | the probe's position, the pool, one record per connection, semaphore and total |
| `DataRelayProofs` | its safety | the inductive invariant `RInv` |
| `Controls`, `AiControls`, `CloudControls` | the 60 checks of AWS, of AWS's AI services, and of GCP, Azure and Supabase | no state: each check is a record that says how it reads its list, what a failing call ends, and what it makes of the answers about an item |
| `CheckRuns` | one check of one account, whichever it is | the account (items, regions, use of a service) that changes; the region, page and item the check is at; `ListPage`, `Ask`, `Judge` and their failures, `Finish` |
| `CheckRunsProofs` | its safety, whatever the checks | the inductive invariant `CheckInv` |
| `ScopeWalk` | the enumeration of a scope in any of the four clouds | the estate (`up`, `place`), which changes at any moment; `open`, the stack of lists being read (one entry for each level of `projectsBelow`); one action per API call, `CallFails` and `EmptyPage` for any of them, `Conclude` for what is refused at the end |
| `OnboardingStatus` | the onboarding page, its two handlers, `countConnectedMembers` | extends `ScopeWalk`, whose AWS walk is part of every poll; `rows`, `trust` (which tenant an account's role admits), `page`, `poll` with its semaphore, goroutines and counter |
| `OnboardingProofs` | the safety of both | the inductive invariants `WalkInv` and `PollInv` |
| `MC...` | small worlds for TLC | constants only |

`ShareReads` extends `SerialLedger`, so that it composes with whatever
implements it, and `BuyerPage` runs over both; `Questionnaire` answers from the
reports that `ScanScope` assembles and the backend accepts; `SealedReport`
posts what a run of `CredentialHandOver` has saved; `OnboardingStatus` extends
`ScopeWalk` and runs it inside each poll, and alone for a scanner;
`VerdictLedger` is shown to implement `SerialLedger` (property `Serializable`).
The refinement maps a committed verdict to an accepted report, the committed
link to the account's token and the least stored `first_seen_at` to
`firstSeen`; every statement but `Commit` and `Revoke` is a stutter.

### What the models leave out, and the choices they make

* **Data.** A report is an account, a scan id, a time, two sets of accounts
  and, in `ShareReads`, the statuses of one control; wording, evidence, hashes
  and JSON are left out. Tokens and verdict ids are named by the request that
  drew them: 128 random bits and `BIGSERIAL` do not collide.
* **Postgres.** READ COMMITTED: a statement sees what was committed when it
  ran. The upsert of `share_links` locks its row, the unique index on `scan_id`
  makes an INSERT wait for the transaction that holds the same value. A
  statement of an open transaction ends; locks pass on when their holder ends.
* **`Placeholders`.** The INSERT INTO verdicts names 33 columns and passes 33
  arguments, and its VALUES list has 30 parameters. The constant is 30 in
  `ledger_as_shipped`, which shows what that means, and 33 in the other ledger
  runs, which ask what the transaction guarantees once the statement is taken.
  The theorems hold for every value.
* **`accounts_listed` is NOT NULL** in a database created from
  `migrations/0001_init.sql`, and a report of an organization that could not be
  enumerated leaves the slice nil, which is sent as NULL: `InsertRefused`.
* **Revocation** is an UPDATE of `revoked_at` by the owner's tooling; the
  repository reads that column and has no code yet that writes it.
* **Sealing.** A hash is its input: two hashes agree when the encodings do. The
  fields stand for the ways a field of the report is encoded and stored: text or
  list, `omitempty` or not, NOT NULL, nullable or JSONB. A text is a sequence of
  characters that JSON or Go escapes (quote, markup, backspace) or does not.
  A certificate is a name, an issuer and a validity. A signature holds when an
  attester made it, and no other document is posted; but the document may be
  that of another scan. A run that saved no file leaves a local scan
  (`--mock-attest`) to post. There is one submission. The limit of 8 MiB on a
  body and the required fields, which every scanner sets, are left out; so are
  COSE, CBOR and the comparison of PCRs, and `BuyerPage` has an attribute for
  each outcome instead (`nitro`, `released`).
* **Scanner.** `ScanScope` posts what it assembled. The other providers run in
  a fixed order in the code and in any order in the model: none reads what
  another wrote.
* **vsock.** A connection takes at most `Buffer` chunks ahead of its reader,
  whether accepted or in the backlog; a reset may hit a live connection or the
  unread data of a closed one, and then a read either returns an empty string
  or raises.
* **Signals.** Ctrl-C reaches the foreground command too, so `set -e` ends the
  script after the trap. SIGTERM reaches the shell only; its trap cleans up and,
  as it does not exit, the script goes on.
* **Checks.** An item is what it would answer to each call; a check's record
  gives for the answers so far whether to ask on and what to conclude. Where the
  API has several parts (permissions of a group, keys of a user, statements of a
  role) an item has one. Two lists that a check joins (the parameter groups of
  `rdsTLSEnforcement`, the inventories of `sagemakerNetworkIsolation`) are one.
  Every trail has a bucket of its own. What a check has found of an item before
  it asks on (`early`: Azure's storage accounts and SQL servers, a trail without
  a key) is kept when the next call fails. Of the roles that `globalAdmins`
  counts the request's filter leaves one. In `nsg` an answer has Azure's field
  names and `Decoded` reads it; elsewhere an answer stands for what the fields
  of the check hold once it is decoded. Checks with equal records are one check
  for TLC.
* **Lists** are served in a fixed order, a token names the last item served.
  `ListBuckets`, `DescribeTrails` and the like answer in one piece.
* **`http.Transport`.** A request on a reused connection that ended before an
  answer is sent once more on a new one, a request on a new connection is not.
  Whether a connection is kept depends on how the answer was framed: free.
* **Dials.** A dial that its context gives up on goes on in its goroutine, and
  its connection may still come (`DialFails`): it is not used, not closed and
  silent, so that the relay's thread stays in `read_hostname`, which has no
  timeout, with its slot. Nothing refers to it any more, so a garbage collection
  may close it (`Finalize`), and the end of the scanner does. A connection that
  is closed before it took the hostname reaches the relay silent too.
* **Scopes.** An account, project, subscription or folder that is deleted or,
  in GCP and Azure, not active is `Gone`; a suspended AWS account is still
  listed. Lists are served in a fixed order and show the estate as it is at each
  call. Names, prefixes and empty ids in answers are taken to be well formed.
* **Buyer page.** The requests of one page go out one at a time, as its effects
  and buttons order them, but for a click while the history is on its way. What
  verification says of a report is an attribute of it, except for the freshness,
  which depends on the browser's clock, and for the published measurement, whose
  download may fail. Coverage is compared as a fraction, not in floating point.
  Events are sets, and so are the transitions at one verdict; the order in which
  they are listed is left out.
* **Questionnaire.** A question is its control id and the set of configured
  phrases it contains; a cell is blank, the customer's or ours. XLSX and CSV
  share one model, and the sheets of a workbook are filled one by one like it.
* **Onboarding.** Tenant ids are random and never drawn twice. A malformed
  account id, a server without a scanner account and an unknown tenant are left
  out: none reaches AWS. A `fetch` ends, with an answer or without. The member
  roles and the management role of one customer are both `trust`. Every
  AssumeRole error counts as "not connected", a throttled one included, which
  is what `assumeInto` says; `throttled` is kept apart only for the properties.

Not modelled: trusted time, whose value nothing in the program acts on; the
signatures, COSE, CBOR and PCRs, where a model could only assume what
cryptography promises; start-up, build and deployment, which read configuration
and wire the parts and have no protocol of their own; the lists and charts of the
page, which render what was verified; generated or third-party code, styles and
assets.

## Runs

| Run | Module | Result | What it shows |
|---|---|---|---|
| `ledger` | MCVerdictLedger | pass | three concurrent posts: stored whole or not at all, one token per account, one verdict per scan, answers true, first-seen times settled; implements `SerialLedger`; no request waits for ever |
| `ledger_as_shipped` | MCVerdictLedger | violation | with the 30 parameters of the code no report is ever stored |
| `reads` | MCBuyerPage | pass | the GET handlers: no answer older than the question, no evidence after a revocation, no hole in a page, no lost transition; the page: the changes shown replay between two verified scans, its parts agree although they were read at different times, it comes to rest |
| `changes_unobserved` | MCBuyerPage | violation | the old findings of an account that can no longer be entered are shown as resolved |
| `delivery` | MCSealedReport | pass | a whole run: truncation only by a reset, giving up only when undelivered, no helper left behind, an undisturbed run delivers; then its report: stored if and only if sealed and whole, and what a browser reads is what was sealed and hashes to it |
| `delivery_hangs` | ReportDelivery | violation | a scan that fails before it connects leaves the script waiting for ever |
| `scope` | MCQuestionnaire | pass | what was not looked at never looks clean; every AWS report whose account is known is accepted; complete coverage, a clear AI posture and every answer of a questionnaire hold of each account, not only of the summaries; what the customer typed comes back |
| `scope_providers` | MCScanScope | violation | an organization scan that also covers Supabase, GCP or Azure is refused with 422 |
| `relay` | MCDataRelay | pass | slots and totals hold and come back, no partial observation, errors have a cause |
| `checks` | MCCheckRuns | pass | on an account that changes and whose calls fail, every check names what is bad and only that, keeps to its regions, surfaces every error, says "not in use" only of what is absent |
| `checks_first_page` | MCCheckRuns | violation | a GCP or Azure check passes over a bad item on the second page |
| `walk` | MCOnboarding | pass | in every cloud a scope lists what was there all the while, once, and nothing that was not; a failing call is no scope; the onboarding counter lies between what was surely and possibly connected, and comes to show the truth |

Each violation is a disagreement of the code with a sentence of its
documentation, quoted under "findings" in `PROJECT.json`.

Smaller disagreements seen while modelling, without a run of their own:

* Delivery and scripts. A connection that breaks half way is saved as a report
  and the run succeeds (`collect-report.py:50` against 35-36, "Returns the
  complete payload as bytes"; `TruncatedOnlyByReset` says when). `SendReport`
  returns nil for bytes that the collector never reads (`report.go:27` against
  README.md:141-142). An interrupt between `run-enclave.sh:81` and 83 ends the
  script without the enclave's id and leaves the enclave running (against lines
  39-42). Nothing bounds a report on its way out, and the server refuses a body
  over 8 MiB (`server.go:45`).
* Sealing. `goJSONString` writes a backspace and a form feed as \u0008 and
  \u000c, Go since 1.22 as \b and \f (`hash.ts:178`, "Replicates Go's exact
  string-escaping rules"): a report that holds one never verifies in a browser,
  the exception in `ReadAsSealed`. With matching INSERT lists, a report of an
  unenumerated organization passes the ingestion checks and fails on
  `accounts_listed NOT NULL`.
* Time. `attested_at` is the unsigned time at which the scan began
  (`handlers.go:140`, `cmd/scanner/main.go:116`), while the latest verdict is
  "the most recently ATTESTED" (`handlers.go:289`): of two overlapping scans the
  one sealed later may be the older one. `first_seen_at` stays at the stored time
  when a report attested earlier arrives later (`store.go:489` against
  `migrations/0005_account_history.sql:24`), and the drift of such a report is
  judged against a scan attested after it (`scope.go:1`, "two consecutive
  scans").
* Scopes. `scanned_regions` is computed from the management account alone
  (`cmd/scanner/main.go:193`), although a member may have other regions enabled
  (README.md:563-564). A credential that sees two GCP organizations is taken to
  see "exactly one" when the first page of `organizations:search` has one
  (`gcp/client.go:78-97` decodes `nextPageToken` and drops it; README.md:305). A
  GCP project that moves during the walk can be listed twice
  (`gcp/client.go:133-165`). Azure's management groups and their subscriptions
  are read from the first page (`azure/client.go:191`, 211; `OnFirstPages` in
  `SteadyListedOnce`).
* Probe and relay. The http.Client of the row probe keeps idle connections
  without a timeout, each of which holds one of the relay's 8 slots, so that a
  ninth project is refused (`http_client.go:27`). A connection whose
  dial was given up holds one too (`vsock_dialer.go:94`). `copy_bidirectional` runs
  inside the loop over the addresses, so that a stream reset half way goes on to
  another address (`supabase-data-relay.py:94` against 5-6).
* Checks. The inline and attached policies of a role are read from the first page
  (`ai_agent_security.go:127`, 138). A knowledge base whose role allows `*` has
  no finding, since only permissions that mention `s3:` are kept
  (`ai_agent_security.go:304`). A GCP rule that names no port allows all of them
  and has none either (`gcp/scan.go:204`). Cloud SQL's `requireSsl` and
  `authorizedNetworks` are read from `settings` (`gcp/scan.go:255`), while the
  API has them in its `ipConfiguration`: every instance lacks SSL. The source of
  a rule of a network security group is read from a key `source`, which Azure
  calls `sourceAddressPrefix`, so that the check passes whatever the rules allow
  (`azure/scan.go:99` against `mappings.json:393`, "Azure NSGs do not expose
  sensitive ports to the internet"; `nsg` shows it). A setting that could not be
  read is reported as disabled beside the error (`gcp/scan.go:351`,
  `azure/scan.go:226`).
* Reads and the page. A control history is cut off at the default limit of 100
  verdicts, so its first transition dates from the oldest verdict of the window
  (`handlers.go:369` against 382-383). When an organization can no longer be
  enumerated every account is reported as no longer listed, without a drop of
  coverage. `Detect` reports a drop against a scan without an organization, which
  the timeline does not mark. Picking one scan on both sides of the comparison
  says that "at least two independently verified scans are required". The AI
  posture says that no agreements were found although the check of model access
  failed (`deriveAIPosture.ts`). The autofill answers from the server's latest
  verdict, which may be newer than the verified one (`QuestionnaireAutofill.tsx:24`;
  `PageHoldsTogether` says that it is never older).
* Questionnaire. Cells under a header "status" or "confidence" that was there are
  written over. A control id shared by several clouds stays flagged as absent
  unless each of them was scanned.

### Bounds, and why they are enough

* `ledger`: three requests, so that two can contend while a third has
  committed; five reports: two of one account in either order, one that ties
  with the later and shares its scan id with a report of another account, one
  whose organization was not enumerated. Every request may carry any of them,
  so retries of one report are included.
* `reads`: two worlds, kept apart by the constraint `Worlds`. In one a client
  calls the API over four reports and two tokens, with `?limit=` below, at and
  above a ceiling of 3 (500 in the code): reports with and without the control,
  with and without per-account results, two attested at one time. In the other a
  page of one vendor is loaded over three reports, of which two tell one of six
  stories: findings that come and go, a role that is lost, an account found but
  not entered, a baseline from before organizations were enumerated, a scanner
  without the control, an organization that can no longer be listed. The clock
  has two times, of which the first verdict is fresh at one. A page needs two
  scans to compare and a third to arrive meanwhile. Tokens are interchangeable
  and the first goes to the page's vendor.
* `delivery`: the three attempts of the code, a report of three chunks and a
  buffer of two, so that a writer can block and a break can fall before, in and
  after the report. Six contents, in which every kind of field is nil, empty,
  plain and escaped; a document of the hardware with its bundle in either order,
  and one of a mock; a server that takes mocks and one that does not.
* `scope`: a management account and one member, two AWS checks, one provider
  with two projects and two checks and one with one of each; every combination
  of statuses. Four mappings, of which two share a control id, one is shared
  with another cloud and one is disabled for the account; a table with a row for
  each way to match a question, one with more cells than headers and one that is
  no questionnaire; each is uploaded, and what comes back uploaded again.
* `changes_unobserved` shares the bounds of `reads`, `scope_providers` the scan
  of `scope`, `delivery_hangs` the run without the hand-over.
* `relay`: tables 2, 0, 1 of three projects, two slots, a total of two for
  three connections, two addresses per host: reuse, both limits, and the
  fallback to a second address all happen.
* `walk`: four accounts of an organization or three projects, two folders that
  may be nested, pages of one entry, so that every list has a token to go on
  with; two changes of the estate, so that something can leave one list and
  enter another, or a folder move with what is in it; one failing call or empty
  page. The poll: two tenants, so that a role may be made for the wrong one,
  a fan-out of two for three members, so that the spawning loop waits; three
  changes of roles and accounts together. A walk and its changes do not depend
  on how many further units there are.
* `checks`: all checks, on two regions of which any may be requested and any
  enabled; two items in the first region and one in the second, on pages of one,
  so that there is a second page and a second region; each item may be anything
  the check can tell apart, or absent; one change of the account at any moment:
  an item that appears, goes or changes, a region that is switched on or off, a
  service that is taken into use. With one change every race of one write with
  the calls of a check is met. `checks_first_page` has the checks of GCP and
  Azure.

### Fairness

* `ledger`: weak fairness of each request's next statement (`Proceed`):
  Postgres ends every statement and hands locks on, and `CreateVerdict` waits
  for nothing else. No fairness for arrivals, faults, revocations.
* `reads`: weak fairness of the server (`Serve`, whose statements end with rows
  or an error), of the page's own steps and of each of its parts, which
  JavaScript's event loop runs. None for the user, the ledger or the clock, so a
  page may be loaded or filled in anew for ever.
* `delivery`: weak fairness of the enclave, the credential server, the collector
  and the script, each a process that runs on; what the server asks of the
  metadata service has a timeout. None for resets, interrupts or failing scans,
  nor for posting and reading; the property about success holds only of
  undisturbed runs.
* `relay`: weak fairness of the scanner and of every relay thread; their waits
  carry timeouts (`http.Client.Timeout`, `settimeout(15)`), which are among
  those steps, but for the reading of the hostname: a connection that stays
  silent holds its slot until the scanner closes it or exits, and `SlotsReturn`
  asks for the slots from then on. None for the Data API or for `Finalize`,
  since no garbage collection need run.
* `walk`: weak fairness of one disjunction, `CodeStep`: the server, the AWS
  calls it makes and the page's timer; each goroutine
  runs on, and a call is taken to end, answered or not. None for the user, the stack, changes or faults.
  `CounterCatchesUp` assumes only that the customer's account is in the end one
  from which the organization can be listed.

## Proofs

| Theorem | Module | States |
|---|---|---|
| `TypeCorrect` | VerdictLedgerProofs | `Spec => []TypeOK` |
| `VerdictsStoredWhole` | VerdictLedgerProofs | `Spec => []StoredWhole` |
| `ScansStoredOnce` | VerdictLedgerProofs | `Spec => []OneVerdictPerScan` |
| `TokensIdentifyAccounts` | VerdictLedgerProofs | `Spec => []OneTokenPerAccount` |
| `AnswersAreTruthful` | VerdictLedgerProofs | `Spec => []AnswersTruthful` |
| `FirstSeenIsSettled` | VerdictLedgerProofs | `Spec => []FirstSeenSettled` |
| `LedgerIsSerial` | VerdictLedgerProofs | `Spec => Serializable`: the store implements `SerialLedger` |
| `RevokedLinkStaysGone` | ReadsProofs | `BuyerSpec => []RevokedStaysGone` |
| `NoHoleInAPage` | ReadsProofs | `BuyerSpec => []PageHasNoHole` |
| `PartsOfAPageAgree` | ReadsProofs | `BuyerSpec => []PageHoldsTogether` |
| `TransitionsTellAll` | ReadsProofs | `BuyerSpec => []TransitionsReplay` |
| `ChangesLeadOn` | ReadsProofs | `BuyerSpec => []ShownChanges` |
| `PageIsTyped` | ReadsProofs | `BuyerSpec => []PageTypeOK` |
| `TypeCorrect` | ReportDeliveryProofs | `Spec => []TypeOK` |
| `OnlyResetsTruncate` | ReportDeliveryProofs | `Spec => []TruncatedOnlyByReset` |
| `GivesUpRightly` | ReportDeliveryProofs | `Spec => []GivesUpOnlyUndelivered` |
| `CleanupIsComplete` | ReportDeliveryProofs | `Spec => []NothingLeftBehind` |
| `RunImplementsDelivery` | ReportDeliveryProofs | `RunSpec => Spec`: a run implements the delivery |
| `RunTypeCorrect` | ReportDeliveryProofs | `RunSpec => []RunTypeOK` |
| `RunTruncatesByReset` | ReportDeliveryProofs | `RunSpec => []TruncatedOnlyByReset` |
| `RunGivesUpRightly` | ReportDeliveryProofs | `RunSpec => []GivesUpOnlyUndelivered` |
| `NoHelperOutlives` | ReportDeliveryProofs | `RunSpec => []NoHelperLeft` |
| `ReportExtendsRun` | ReportDeliveryProofs | `ReportSpec => RunSpec`: posting and reading leave the run alone |
| `ReportIsTyped` | ReportDeliveryProofs | `ReportSpec => []ReportTypeOK` |
| `OnlySealedIsStored` | ReportDeliveryProofs | `ReportSpec => []StoredIffSealed` |
| `SealedIsRead` | ReportDeliveryProofs | `ReportSpec => []ReadAsSealed` |
| `NoUnseenAccountLooksClean` | ScopeProofs | `FillSpec => []NothingUnseenLooksClean` |
| `AwsReportsAreAccepted` | ScopeProofs | `FillSpec => []AwsReportAccepted` |
| `ClaimsAreObserved` | ScopeProofs | `FillSpec => []ClaimsObserved` |
| `SheetIsTyped` | QuestionnaireProofs | `FillSpec => []SheetTypeOK` |
| `AnswersAreSupported` | QuestionnaireProofs | `FillSpec => []AnswersSupported` |
| `CustomerCellsAreKept` | QuestionnaireProofs | `FillSpec => []CustomerCellsKept` |
| `RelayLimitsHold` | DataRelayProofs | `Spec => []LimitsHold` |
| `ProbeObservesInFull` | DataRelayProofs | `Spec => []ObservedInFull` |
| `ProbeErrsForACause` | DataRelayProofs | `Spec => []ErrorsHaveACause` |
| `BadItemsAreNamed` | CheckRunsProofs | `Spec => []BadIsNamed` |
| `FindingsNameBadItems` | CheckRunsProofs | `Spec => []FindingsAreReal` |
| `NotInUseMeansAbsent` | CheckRunsProofs | `Spec => []AbsenceIsReal` |
| `ErrorsAreNotHidden` | CheckRunsProofs | `Spec => []ErrorsSurface` |
| `OnboardingIsTyped` | OnboardingProofs | `Spec => []TypeOK` |
| `ScopesAreComplete` | OnboardingProofs | `Spec => []SteadyListedOnce` |
| `OnlyTheUnfitAreRefused` | OnboardingProofs | `Spec => []RefusedExactlyWhenUnfit` |
| `TheCounterIsTrue` | OnboardingProofs | `Spec => CounterIsTrue` |

Most state a property of a run. `OneTokenPerAccount` is proved and no longer
checked by a run; the types and `NothingLeftBehind` of the delivery are
conjuncts of `RunTypeOK` and `NoHelperLeft`, and `RunTypeOK` is one of
`ReportTypeOK`.

### The store

Proved for every set of requests, accounts and reports and every value of
`Placeholders`, from `ReportsAssumption` (reports are well formed),
`NullsAssumption` (the null values are not tokens, ids or times) and
`PlaceholdersAssumption`.

None of the five safety properties is inductive: each speaks of committed rows,
and what a commit publishes was computed in earlier steps. `IInv` adds what the
transaction knows in between:

* `LocksExclusive`: two open transactions past the upsert carry different
  accounts, and two past the INSERT different scans. Without it a request's
  local token could be overtaken by another's commit.
* `TokensOwned`: a request past the upsert holds its account's committed token,
  or its own fresh one if the account has none, and nobody else holds that one;
  a committed link's token was drawn by a request for that account.
* `VerdictsOwned`: a stored verdict is its own request's, which has committed;
  no scan is stored twice or about to be, and no link is without a verdict.
* `PendingRows`: the uncommitted rows and the draft are exactly those of the
  listed accounts already visited, with the request's token, time and status.
* `CommittedRows`: every stored row belongs to a stored verdict and its account
  list, once.
* `SeenAgree`: rows of one account under one token, committed or pending in a
  transaction, agree on `first_seen_at`; it needs the lock, since the SELECT
  MIN of a second transaction would otherwise miss the first one's rows.
* `AnswersOwned`: what an answer says of the request's own verdict.

`InductiveInvariant` shows `Init => IInv` and preservation with one step per
action; each theorem follows from a part of `IInv`.

The refinement needs more: at `Commit` the abstract `Accept` computes the
first-seen times from the ledger as it stands then, the code from what its
statements read before. `SInv` adds `LatestExists` (a token that has verdicts
has a latest one), `BaselinesStored` (a stored baseline names a stored
verdict), `BaselinesCurrent` (the baseline that an open transaction read is
still the latest of its token: its lock keeps others from committing one) and
`PendingFirsts` (a pending row carries its own report's time unless the account
was seen under that token before, when it carries the stored one). `Commit` and
`Revoke` map to steps of `SerialLedger`, every other action to a stutter.

### The delivery

Proved for every size of report and buffer and every number of attempts, from
`SizesAssumption`. `DInv` ties the attempts to the connection being read:

* `AttemptsBehind`: an attempt is left behind only before it was handed over in
  full, one that has not begun has no connection. Hence giving up means that no
  attempt was complete.
* `ReadWhatWasSent`, `ClosedWhole`: the collector reads no more than was sent;
  a connection closed short of the report is broken. Hence the end of a stream
  short of the report is a break.
* `BrokenByDisturbance`: while the collector runs only a disturbance breaks a
  connection in use (when it stops it breaks them itself).
* `SavedAsRead`: what is saved is what was read from `collector.conn`.
* `ScriptOwns`: the order in which the script starts and stops the others.

### The run with its hand-over

Proved for the same constants. `CredentialHandOver` extends the delivery, so the
refinement mapping is the identity on its variables: `RunStep` shows that each
step of a run is a step of `ReportDelivery`, a scan that fails for want of
credentials included, or leaves `vars` unchanged. Hence `RunSpec => Spec`, and
every theorem of the delivery carries over. What is new is the server:
`ServerOwned` says that it is off before the script has started its helpers and
does not run once the script is done. It is inductive together with the types of
`HandInv` and the delivery's `TypeOK`. `RunSpec` states safety only, so that it
follows from `ReportSpec`, which has the fairness.

### The report

Proved for every set of contents and documents, from `ContentsAssumption` (a
field is a text or nil, and nil only where the Go type is a slice),
`DocumentsAssumption` (the Nitro root is self-signed and a leaf is not; a
document's chain is complete at its own time, and bundles the Nitro root if it
leads there) and `NoRowAssumption`. `SealInv`
says that what was posted is a `Submission` of a content, of what a document
sealed and of that document; that it is stored if and only if the server accepts
it; and that the browser shows what it computes of the row. The step that posts
needs the delivery's `TruncatedOnlyByReset`: a run that nothing disturbed saved a
whole report, and `DisturbedStays` says that a disturbance is not forgotten.

The work is in what the encoders do, for texts of any length. `MarshalAgrees`:
two contents have the same JSON if and only if each field agrees or is omitted in
both. `DecodeIs`, `SelectedIs`, `StorableIs`: decoding, storing and selecting
loses the difference of nil and empty, and no other. `BrowserAgrees`: the
TypeScript encoding of the row is Go's encoding of the content, unless a text has
a backspace. `ChainsAgree`: a chain that Go accepts is one the browser accepts,
at the time of the document. `AcceptedIf` and `ShownIs` put them together.

### Reads and the page

Proved for every set of reports, tokens and times, any limits and any number of
loads, over a ledger that takes any step of `SerialLedger`, from
`ResultsAssumption`, `LimitsAssumption`, `PageAssumption` and
`EnteredAssumption` (a report with the control has a result for every account it
lists, an error if it was not entered, which is what `ScanInv` says of the
scanner; only `ChangesLeadOn` needs it). A handler reads the ledger twice and the page three times, so
each property relates states that are far apart. `PageInv` carries:

* `LedgerKeeps`, with `LedgerGrows`: tokens are of one account and are kept, the
  accepted reports are finitely many and only grow.
* `RequestInv`: what a request found live was live when it was sent; what it
  returns is stored under its token, is no longer than its limit and has no hole.
* `Waiting`: which part of the page the one request under way belongs to, and
  that the report of the page was stored before the request was sent. Hence its
  answer is at least as new or has the report, unless it is full of newer ones.
* `PartsInv`, `SectionInv`, `FillInv`: what each part shows is stored under the
  page's token; the page's report is among the entries verified or still to be
  verified, or an entry was excluded, or the page was full.

`PageOfLedger` is the lemma about a page of verdicts: sorted newest first, cut at
the limit, it has no hole.

Two more invariants rest on it. `OrderInv`: the page, the entries still to be
verified and those verified are each newest first, and no entry still to come is
newer than a verified one; so the smaller index of the two scans compared is the
later scan. `StoryInv`: the types, and `TransitionsReplay`. The lemma behind the
latter, `Replays`, is about pages of any length: at the oldest verdict that does
not replay, either the status has changed, and its own transition tells it, or it
is that of an older verdict, which does replay. `DiffIs` and `DetectIs` say what
the two comparisons report of any two scans.

### The scan and the questionnaire

Proved for every finite set of accounts and of units of a provider, any checks
and providers, from `AccountsAssumption` and `ProvidersAssumption`. `ScanInv`
follows the report while it is assembled: `OrganizationInv` (how the organization
was found, and that the warning is there if it was not), `VisitInv` (every
account of the boundary but those still to be visited has a result for each
check, an error if it could not be entered), `SummaryInv` (once aggregated, a
summary is the worst of the results), `ProvidersInv` (the same for the other
providers' scopes). `aggregateAccountResults` is a loop over a map, whose order
Go leaves open; it is a fold in the model. `FoldIsUnique` shows that any two
functions that satisfy its equation agree on every finite set, by a least
counterexample, and so `AggregateIsWorst` that the loop computes the worst
status.

The questionnaire is proved for every mapping and every table, from
`MappingsAssumption` and `SheetsAssumption` (an uploaded cell is not ours).
`SheetInv` says that under every header of a table that came back an answer is
the customer's or what the report decides of its question (`Sourced`), and that
the cells of the upload are there still (`Returned`). With the parts of `ScanInv` an answer that claims support rests on a
conclusive result of every account. `FilledIsReturned` and the lemmas on columns
say what `Autofill` does to any table, one that was filled before included.

### The relay

Proved for every list of projects and tables, any number of addresses and any
limits, from `SizesAssumption` and `ConnAssumption`. `RInv` ties the probe, its
pool and the threads together: `ProbePosition` and `QueriedSoFar` (how far the
probe is and what it has counted), `PoolEarlier` (an idle connection was dialled
for an earlier table of its project), `UndialledOff` (no thread runs for a
connection not dialled), `SlotWhileWorking` and `Counters` (a thread holds its
slot from its acquisition to its release; slots and total count what they are
for) and `EndsForAReason` (a connection under way ends only after a disturbance
or at a limit), which gives `ErrorsHaveACause`. `NotDialled` and `ConnArrives` say
that a connection is dialled once and comes to the relay once, waited for or not;
one that nobody waits for is no `Exchanging` one. The first lemma about a thread
(`ThreadMoves`) says what any of its steps does, so that the invariant is argued
once for all of them.

### Checks

Proved for every account, any regions, items, page size and number of changes,
and for every check that `IsCheck` describes; `ChecksAssumption` says that the
60 checks are of that kind, and TLC evaluates it. `CheckInv` compares what the
check knows with `truth`, the verdict of the items that have not changed since
the check began, and has one part for each place where knowledge can be:

* `EntryInv`, `PageInv`: the answers about an item that is not yet judged are
  those it would give, as far as they have been asked for.
* `EarlyIsBad`: an item that is a finding before the check asks on is bad,
  whatever else it would answer (a part of `IsCheck`), so that the finding may
  be kept when the next call fails.
* `UnitInv`: an item of the region at hand that is behind the reader is named
  if it is bad, or its failure is; `ListedInv`: the list is over only when every
  steady item is on the pages read.
* `LeftInv`: the same for the regions that were left; `RealInv`: what is named is
  not known to be good, nor absent; `GoodInv`, `StatusInv`: what the status says
  of the counts and failures.
* `RegionsInv`, `CoverInv`: no region that is due is forgotten.

It was checked on the states of the run `checks` (3.9 million) before it was
proved.

### Scopes and onboarding

Proved for every forest of folders, any number of units, pages of any size, any
number of changes, faults, tenants and probes, from `NumbersAssumption` (units
and folders are finitely many and numbered, as pages list them in order),
`BoundsAssumption` and `OnboardingAssumption`. `Above` is a least closed set,
not a recursive operator; the lemmas on `Upward` say how it changes when one
folder moves, and `DeepRooted` finds the folder of least depth at which a chain
to the root breaks.

`WalkInv` has `EstateHolds` (what exists hangs from the root), `StackInv` (the
stack of `projectsBelow` reads no steady container twice, and none of which a
folder above is still to be entered), `SteadyInv` (a steady unit is listed once
if the walk has passed it, and not at all while it is ahead) and `FitInv` (what is known of an
estate that has not changed, for `RefusedExactlyWhenUnfit`). `PollInv` adds the
poll: `PollPlaces` (page, request and walk are at the same place) and `CountInv`
(slots and goroutines add up to `Fanout`; the counter is one more than the size
of a set of accounts that contains those surely connected and is contained in
those possibly connected).

### Only model-checked

* Liveness: `EveryRequestAnswered`, `UndisturbedRunDelivers`, `SlotsReturn`,
  `CounterCatchesUp`, `PageSettles`. No installed prover handles fairness.
* The five violations, which are single behaviours.

What a single check makes of one item is part of its record: the properties of
`CheckRuns` ask what becomes of it, not whether it is the right conclusion.

## Plan

In this order:

1. `PageHasNoHole` from `LedgerIsSerial`, of the store as Postgres runs it.
2. `CheckRuns` composed with `ScanScope`, whose check results are free today;
   `broadPolicyStatements`, `policyAllowsUnrestrictedPublic` and the other pure
   predicates against reference definitions.

Runs are kept few: a module that refines or feeds another one is checked in a
run with it, and pure functions share a run.
