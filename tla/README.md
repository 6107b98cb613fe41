# TLA+ models of autentico

autentico is an OpenID Connect provider: one Go process, one SQLite file, three browser front ends. This directory
models the provider itself, checks the models with TLC on small instances and proves the properties that matter most
with TLAPS for every instance. Paths below are relative to `src/pkg/` unless they start with `src/`.

## 1. The system

### How it runs

Every HTTP request is a goroutine. There is no in-memory state between requests except the settings, the rate limiter
and the JWT keys: everything else is a row of SQLite, opened with one writer and several WAL readers (`db/db.go`). A
statement commits by itself, and only two operations use a transaction: `idpsession.DeactivateWithCascade` and
`user.revokeUserAccess`. So the interleavings that matter are those *between statements*:
what a request has read may be stale by the time it writes. A cleanup goroutine (`cleanup/service.go`) runs once at the
start and then every six hours. A restart drops the requests in flight and keeps the tables.

### Inventory

Components, what each keeps, what it does, where it meets the others, what makes it hard, what makes it right, and the module that models it.

| Component | State | Operations | Interacts with | Hard because | Right when | Module |
|---|---|---|---|---|---|---|
| Token endpoint (`token/`) | `tokens`, `sessions` | code, refresh, password, device and client-credentials grants; replay detection; rotation | reads `auth_codes`, `users`, `idp_sessions`; writes both grant tables by two INSERTs | read, check, spend and insert are up to seven statements; rows affected are never looked at | what was presented is spent before what it buys exists; a refreshed grant keeps its user and its browser login | `TokenEndpoint` |
| Authorization codes (`auth_code/`) | `auth_codes` | create, look up, mark used | written by every way of signing in, spent by the token endpoint | the mark is unconditional | a code that yielded a grant yields no other to a later request | `TokenEndpoint` |
| Browser logins (`idpsession/`) | `idp_sessions` | create, touch, idle and age sweep, cascade | parent of `sessions`; closed by logout, sweeps, account operations | ids read by a sweep go stale; a session may be born after its login was closed | no grant outlives its login unnoticed | `TokenEndpoint` |
| Sign-out, revocation (`session/`, `revoke/`) | – | cascade, revoke a token, end a session | all grant tables | runs between any two statements of a token request | reaches everything that exists | `TokenEndpoint` |
| Users (`user/`) | `users` | create, update, lock out, deactivate, delete | read by every sign-in | `UpdateUser` writes back a whole row read before; deactivation and its revocation are two statements | an answer given on the row survives a slower writer | `UserRow`, `TokenEndpoint`, `Accounts` |
| Device grant (`devicecode/`, `token/device_code.go`, `account/device.go`) | `device_codes` | request, poll, approve, deny, consume | ends in the token endpoint | device polls while the user answers; every UPDATE's error is dropped | the first answer stands; only the approver's grant is issued; no slow_down is lost | `DeviceGrant` |
| Second factor (`mfa/`, `trusteddevice/`) | `mfa_challenges`, `trusted_devices` | challenge, guess, switch method, enrol, trust, revoke | between the password, or the magic link, and the login | the attempt limit compares a count read before; the settings change under an open challenge | wrong codes are bounded; a challenge lets in only requests that overlap; a device vouches only after a proof | `MfaChallenge` |
| One-time links and passkey challenges (`magiclink/`, `passwordreset/`, `passkey/`) | three token tables | send, invalidate, redeem | sign-in, password, logins | read unused, act, mark used | what worked does not work for a later request; one link is good at a time | `EmailSignIn` |
| Consent (`consent/`, `authorize/`) | `user_consents` | grant, extend | before the code is created | two pages open at once overwrite each other; some ways to sign in do not ask | a code is only issued for scopes approved together | `Consent` |
| Signing up, verification (`signup/`, `emailverification/`, `account/profile.go`) | `users` | create, send, verify; update by the owner or an administrator | sign-in | the address may change while a link is out, and while an update is between what it compared and what it writes back | a verified address was proven by its link or vouched for, with two named exceptions | `Accounts` |
| Passkey registration (`passkey/`) | `passkey_challenges`, `passkey_credentials`, `users` | begin, finish, delete what is incomplete, add, remove | creates and deletes accounts | a failed finish deletes the account on a stale `registered_at` | an account in use is not deleted | `Accounts` |
| Federation (`federation/`, `account/federation.go`) | `federated_identities` | sign in, create, link, unlink | users, sign-in | look up, create, link are separate and drop their errors | an account made for an identity has it | `Accounts` |
| Account removal (`deletion/`, `user.HardDeleteUser`) | rows of nine tables | request, cancel, approve, delete | every table with a user id | nine DELETEs without a transaction; foreign keys | a deletion stops half-way only for a reason | `Accounts` |
| First start (`onboarding/`, `cli/onboard.go`) | `users`, `settings` | first administrator | settings | check, create and promote are three statements | one administrator per overlapping request, and not none | `Server` |
| Schema (`db/`, `cli/start.go`, `cli/migrate.go`) | `PRAGMA user_version`, the tables | run pending migrations, check | everything | DDL and version are separate statements; a second program may run them too | who serves has every migration, unless a disturbed run was redoing one; one fails only behind a run that was cut short | `Schema` |
| Settings (`appsettings/`, `config/`) | `settings` and a global struct | defaults, load, set, import | read by every request without a lock | table and memory are two; values that do not parse are stored all the same; the struct is assigned while it is read | what is stored, and can be parsed, is what counts between changes | `Server` |
| Certificate authority (`ca/`, `cli/ca.go`) | `certificates` | issue, bundle, revoke; init, refresh, delete | user removal | a key is generated between the read and the write | a retired key signs only for who had read it; no leaf is left without its issuer | `Certificates` |
| Cleanup (`cleanup/`) | none | sweep logins, purge ten tables | every table | works from what it has read | purges nothing that is still needed | in the module of each table |
| Rate limiter (`ratelimit/`) | buckets per address | allow, clean up | middleware | two buckets, one spent although the other refuses | a refusal costs nothing | – |
| Groups, clients, API tokens, audit, e-mail, discovery, listings | rows of their own | CRUD | – | single statements | – | – |

`PROJECT.json` lists all of them under `components` with their files and whether they are modelled, and under `hazards`
every place where this code is exposed, with the properties that would notice.

## 2. The models

### What an action is

One action is one SQL statement (or one transaction) of one handler, together with the Go code up to the next statement.
Its guard is what the handler has tested since its last statement; what the handler holds in local variables is a record
per goroutine (`req`, `poll`, `loc`, `mail`, `program`), so stale values stay stale. A request that is refused before it has written anything is not
a step; one that is refused afterwards is. A statement that fails is an action of its own wherever the code reacts to the
error, and it reacts the way the code does: dropped, logged and passed over, or the end of the request. `Crash` (`Stop` of a
program) drops what is held in memory and keeps the tables.

Rows are model values. In the grant tables a row that was never inserted is `free`, one that was purged is `deleted`, and identifiers are
never reused (in the code they are random strings or xids). A member of `Grants` is one call of `GenerateTokens`: the
access token, the refresh token and the two rows they go into.

### Modules

| Module | Models | State and actions |
|---|---|---|
| `SessionStore` | the five tables `users`, `idp_sessions`, `auth_codes`, `tokens`, `sessions` and their bulk statements | `user`, `login`, `code`, `token`, `session`; `DeactivateWithCascade`, `RevokeUserAccess`, `RevokeTokensByUserAndClient` |
| `TokenEndpoint` | sign-in to the code, `/authorize`, consent, `/token`, revocation, logout, account operations, cleanup, restart | `pc[p]`/`req[p]` a goroutine's next statement and what it has loaded; `pending` second statements still owed; `sweepPc`/`sweepIds` the cleanup goroutine; sets for what has run out |
| `GrantRegistry` | *abstract*: what the token endpoint promises | `stage`, `subject`, `parent`; `Mint`, `Open`, `End` |
| `OneTimeToken` | *abstract*: what every row that is good once promises | `stage`, `found`, `owed`, `uses`, `lost`; `Issue`, `Find`, `Use`, `Spend`, `Release`, `Lose` |
| `DeviceGrant` | the device grant and the account API that answers it, composed with `TokenEndpoint` | `device` rows; `poll[p]` a goroutine's device request; `recent`, `overdue` the clock's view of a row |
| `UserRow` | the columns of one `users` row that decide how its owner signs in, and everything that checks or changes them | `user` the row; `loc[p]` a goroutine's next statement, its purpose and the row as it was last read |
| `MfaChallenge` | what happens between the right password and the login: whether a factor is asked for, which, the challenge, trusted devices | `challenge`, `device`, `enrolled`, `config`; `PasswordRight`, `PostUser`, `WrongCode`, `LockChallenge`, `SwitchCreate`, `CreateTrustedDevice` |
| `Consent` | the end of every way to sign in: login, consent, code | `consent`, `login`; whether a way asks for consent is part of the request |
| `EmailSignIn` | magic links, reset links and passkey login challenges, composed with `Consent` | `link` rows; `mail[p]`; `InvalidatePreviousTokens`, `CreateLinkToken`, `OpenLink`, `MarkUsed`, `UpdatePassword` |
| `Accounts` | accounts that come and go: signing up, passkey registration, federation, verification, deletion | `acct`, `rows[u]` which tables refer to an account, `identity`; `address`, `verified`, `sent` the address, its flag and where its link was mailed |
| `Schema` | `InitDB`, `migrations.Run` and `Check` by several programs on one file | `version`, `schema[m]` how far a migration has changed the tables, `spare[m]` the table a rebuild fills, `program[s]` |
| `Server` | the settings and their copy in memory, and the first administrator, composed with `Schema` | `setting`, `config`, `user`, `onboarded`; `SetSetting`, `GetAllSettings`, `ParseSettings`, `AssignConfig`, `CreateUser`, `PromoteUser` |
| `Certificates` | the certificate authority | `cert` rows with their issuer; `HandleGenerateUserCert`, `InsertLeaf`, `RunCaInit`, `RunCaRefresh`, `RevokeOld`, `RunCaMtlsBundle` |
| `TokenEndpointInv` | the inductive invariants of `TokenEndpoint` | – |
| `TokenEndpointMC`, `DeviceGrantMC`, `UserRowMC`, `MfaChallengeMC`, `EmailSignInMC`, `AccountsMC`, `ServerMC`, `CertificatesMC` | instances for TLC | – |
| `TokenEndpointClaims` | sentences of docs and comments that the code does not keep | – |
| `TokenEndpointProofs`, `DeviceGrantProofs`, `UserRowProofs`, `MfaChallengeProofs`, `EmailSignInProofs`, `AccountsProofs`, `ServerProofs`, `CertificatesProofs` | theorems | – |

The `map` of `PROJECT.json` names for every definition the lines it stands for.

**How a token request goes.** `ExchangeRead` (or `RefreshReadSession`, `CheckRevoked`) reads; `MarkAuthCodeAsUsed` spends;
`LoadUser` looks for an active user; `ReadPriorLogin`, `TouchPriorLogin` and `RotateRefreshToken` belong to a refresh;
`CreateToken` and `CreateSession` are the two INSERTs. Between any two of them anything else may run.

**How a request on the user's row goes.** A password check reads the row (`CheckRequest`, `VerifyRead`), lets bcrypt run, and writes
the count it has read plus one (`WrongPassword`) or clears it (`RightPassword`). Behind it comes what the request was for:
`UpdateRead` and `UpdateWrite` are the SELECT and the UPDATE of `UpdateUser`, which writes every column back;
`StoreTotpSecretPending`, `SaveTotpSecret` and `DisableMfa` write the second factor. `VerifyTotp` and `EnrolRead` are the two
places where a code proves a secret before it is saved. An administrator's update, a reset link and a forced change enter at
`UpdateRead`.

**How a second factor goes.** `PasswordRight` reads whether the owner has enrolled and what the settings ask for; a trusted
device ends it there (`DeviceVouches`), otherwise `CreateMfaChallenge` inserts a challenge. Each post reads the challenge (`Load`)
and then the user (`PostUser`), compares the count it has read with the limit, and a wrong code adds one in a statement of its own (`WrongCode`).

**How an account goes.** `DeleteAccount` starts `HardDeleteUser`: `DeleteRequests`, `DeleteGrants`, `DeleteIdentities`,
`DeleteUser`, each a statement that other requests may insert behind; `DeleteUser` fails as the foreign keys do. `RegisterBegin` and
`FinishFails` reach the same statements when a registration is abandoned. `UpdateProfile` is what the middleware has read of the owner's row,
`UpdateByOwner` and `UpdateByAdmin` the SELECT of `UpdateUser`, and `UpdateUser` its UPDATE, which writes address and flag back whatever
the row is by then; `MarkEmailVerified` sets the flag of whatever the address is by then.

**How a program goes.** `init` opens the file, `run` reads the version, `apply` is one statement of a migration, `stamp` sets the version,
`defaults` writes missing and empty settings; then a program is `up`: a server takes requests, a command does what it was called for and stops.
A rebuild is four statements (create, copy, drop, rename), and between the last two its table is not there. `Stop` may come anywhere.

**How a setting goes.** `SetSetting` stores one row at a time, `GetAllSettings` reads all of them, `ParseSettings` copies the struct and puts into it what
can be parsed (`Loaded`: what cannot leaves a number, a duration or a list as it was in memory, and sets a switch to its fallback), `AssignConfig` assigns the copy.

**History variables.** They record what no table does and steer nothing.

| Module | History |
|---|---|
| `TokenEndpoint` | `origin` the code or grant a grant was issued from; `late` grants inserted under a login or user already closed, or while an operation on the user is half done; `missed` users of whom a revocation failed |
| `DeviceGrant` | `issuedTo` the device of a grant; `slowDowns` raises of a device's interval; `unspent` devices whose consumption failed |
| `UserRow` | `guesses`, `late` wrong passwords counted since the counter was cleared or a lock ended, and those under a lock; `proven` secrets a code was checked against; `revived` `UpdateUser` was the last to set `totp_verified` |
| `MfaChallenge` | `guesses`, `entries` wrong codes compared and requests let in; `lost` an UPDATE that counts or closes never happened; `proven`, `skipped` |
| `Consent`, `EmailSignIn` | `approved`, `unapproved` scopes approved together and codes without; `uses` of a link; `lost` |
| `Accounts` | `late`, `strange` rows inserted behind a deletion and deletions blocked for no reason; `undone`; `unlinked`; `proven` addresses whose link was opened or that an administrator vouched for, `mistaken` those that got the flag of another one |
| `Schema`, `Server` | `disturbed` a run was cut short or overlapped another, `repeated` rebuilds that were done and dropped their table once more; `stale` loads overlapped, failed, or a command wrote defaults, and nobody has loaded undisturbed since; `reader` whose load is undisturbed so far; `lost` the promotion failed or somebody signed up first |
| `Certificates` | `retired` rows revoked or deleted; `late` what each key was used for afterwards |

**How the modules compose.** `DeviceGrant` EXTENDS the token endpoint: a goroutine is either in a step of its own `poll` or
in a statement of `TokenEndpoint`, and hands over at the look-up of the user, which to the token endpoint is
`DirectGrant`. `TokenEndpoint` is thereby the abstract specification of `DeviceGrant`, as `GrantRegistry` is that of `TokenEndpoint`.
Four handlers written apart read a row as good, act, and mark it in later statements that ignore how many rows they changed: `OneTimeToken` is
what they promise in common, and authorization codes, device codes, mailed links with passkey challenges, and second-factor challenges each implement it:

| Module | `Tokens` | `found` | `uses` | `owed` |
|---|---|---|---|---|
| `TokenEndpointInv` | codes | requests past the look-up of an unused code | grants of the code | nothing: the mark comes first |
| `DeviceGrant` | device codes | polls that have read the approval | grants issued to the device | polls that went on after `ConsumeDeviceCode` failed |
| `EmailSignIn` | links and passkey challenges | requests about to mark, or to change the password | how often the link worked | a password changed, the link not yet marked |
| `MfaChallenge` | challenges | requests that have read the challenge | requests let in | nothing: the mark lets in |

`EmailSignIn` EXTENDS `Consent` and hands a request over when its link was good; `Server` EXTENDS `Schema` and serves only while its
program is up. The others meet through the tables they share, of which each models the columns it decides on.

### Abstractions and assumptions

* **Time** is not a number. A login may go idle or get old, a code or an access token may lapse, a refresh token may
  expire after its access token did: with the default settings 15 minutes and the 24 hours of retention come before 30
  days. In `DeviceGrant` a poll is recent until `IntervalPasses`; the interval is counted in steps of five seconds. Links,
  challenges and devices expire whenever they like.
* **No request lasts a retention period** (24 hours): cleanup does not purge a row whose key a request in flight holds,
  except a `sessions` row, which goes by the expiry of the *access* token and may be in use.
* **Owner is fixed**: `Owner[l]` says which user signs in when login `l` is created; TLC and the proofs allow any.
* **One account operation of each kind at a time per user** (`pending` is a set): two admins deactivating one user at the
  same moment are serialised by the UPDATE's `deactivated_at IS NULL` anyway.
* Validation that reads only the request or the client's row (PKCE, redirect URI, scopes, client authentication) is left
  out: it refuses before anything was written. The refusal of too wide a scope, which comes *after* the rotation, is in.
* In `UserRow` the lockout is switched on (`MaxAttempts > 0`); a lock ends whenever it likes. A failure whose UPDATE itself fails
  is not a counted guess. A secret that neither the row nor a request holds may be generated anew. Any request may arrive with a
  good reset link; how links are found and spent is in `EmailSignIn`, the revocation that follows in `TokenEndpoint`.
* In `MfaChallenge` one user signs in; a closed challenge is used, expired or purged, and no handler tells them apart. Whether a code is right is a choice.
* In `Accounts` all accounts want one name, so that at most one is there at a time. An id comes back only when nobody holds it.
  Logins, challenges, codes, sessions and tokens stand as one table (`grant`), which they are to a deletion: DELETEs without a condition on each other.
  Groups and API tokens, which go with the account or stop it like a link, are left out.
* In `Server` a request belongs to the program that took it; only `Main` serves, a command that is `up` can only onboard. Of the settings a
  key is of one of two kinds, with a fallback for what cannot be read or without (then memory keeps what it had; `theme_css_file` takes an empty value for one of those). That the interval and the retention of the cleanup, which the server hands over once at its start, change only in memory is left out.
* In `Schema` the tables of migrations that only create or index stand as one, and the indexes behind a rebuild are left out.
* In `Certificates` user certificates are for one user; ids count up and stand for `created_at`; a revoked row has no key. Passwords and cryptography always
  work. Types no code creates, the chain and the listings, which only read, are left out.
* Formatting, hashing and signing are left out; a token value is its grant.

## 3. What TLC checks

Each run asks one question. The instances of the token endpoint use one user (`u1`): no statement relates rows of two users, and the proofs
cover any number. Rows and goroutines are symmetric.

| Run | Instance | Question |
|---|---|---|
| `TokenGrants` | 2 codes, 3 grants, 2 requests | Is what is presented spent before what it buys is inserted (`RotatedParentRetired`, `RedeemedCodeSpent`), is overlap the only way to redeem twice (`RedemptionsBounded`), do the tables implement the registry (`RegistrySpec`)? |
| `TokenAccounts` | 1 code, 2 grants, 2 requests, failures, restart | Do logout, revocation, deactivation, reset and forced change reach every grant that existed (`CascadeComplete`, `DeactivationComplete`)? |
| `TokenCleanup` | 1 code, 2 grants, 1 request and the cleanup goroutine, whose statements may fail | Does the link to the browser login survive refreshes while rows are purged (`LinkInherited`)? |
| `TokenLive` | 1 grant, 1 request, cleanup, failures | Is an idle login closed in the end (`IdleLoginCloses`), does a deactivation end every grant (`DeactivationSettles`)? |
| `DeviceGrants` | 1 device, 2 grants, 2 requests, failures, restart | `DeviceGrantApproved`, `DeviceCodeSpent`, `FirstAnswerStands`, `SlowDownsCounted`, and the refinement `TokenEndpointSpec` |
| `UserRows` | 2 requests, 2 secrets, `MaxAttempts` 3, failures, restart | How many wrong passwords does a stale count buy before (`LockReached`) and after (`LateGuesses`) the lock; is every second factor that counts proven (`SecretProven`)? |
| `MfaChallenges` | 2 requests, 2 challenges, 1 device, `Limit` 2, changing settings, failures, restart | How many wrong codes does a challenge take (`GuessesBounded`), how often does it let in (`ChallengeSpent`), what does a trusted device rest on (`DeviceEarned`)? |
| `EmailSignIns` | 2 requests, 3 links, 2 scopes, failures, restart | How often is a link good (`LinkSpent`), how many are good at a time (`LinksBounded`), are codes issued for what was approved (`CodesConsented`)? |
| `ServerStarts` | a server and a command, 3 migrations, 2 settings, of which one has a fallback, values that are empty or cannot be parsed, 2 requests, 3 users | Does anybody serve on an incomplete schema (`SchemaComplete`), when does a migration fail (`FailsOnlyDisturbed`), are the settings current (`ConfigCurrent`), is there an administrator, and how many (`FirstUserPromoted`, `AdminsBounded`)? |
| `AccountsDeleted` | 2 requests, 2 ids, 2 subjects, 2 addresses, failures, restart | What stops a deletion (`DeletionBlocked`), what does a stale registration delete (`RegistrationKept`), what was an address proven by (`VerifiedProven`), when is an identity lost (`FederatedUserLinked`)? |
| `CertificatesIssued` | 2 requests or commands, 5 certificates, 1 root | What is a key good for after its row was retired (`LateUses`), which certificates lose their issuer (`OrphansBounded`)? |
| `ClaimRefreshLifetime` | cleanup | refuted: a refresh token works for its lifetime |

**Bounds.** Two goroutines suffice for every race between two requests, and the properties of the grant tables mention at most
two grants, so the third grant of `TokenGrants` (a refresh of a refresh next to a replay) is one more than the shortest
counterexample of any mutant needs. `MaxInterval` allows one slow_down while another is under way; a poll of a device at that bound is not
begun. In `UserRows`, `MaxFailed` is one more than the
threshold: a check that reads a higher count is not begun, and it could only lock the account once more. `LockReached` allows as many
counted failures as there are `Profiles`, "`MaxAttempts + P - 1` choose `P`" (`ProfilesCounted` compares the two on the instance: 6 for two requests and a threshold of three, instead of 3);
TLC refutes the bound when it is made smaller by one. In `MfaChallenges` the limit is two instead of the code's five, the least that a stale count can
miss by more than one; a challenge takes `Limit + 2 (P - 1)` wrong codes, and TLC refutes that bound too when it is made smaller by one.
`MaxFailed` there bounds the count once an UPDATE was lost, which a constraint keeps out of the run.
Two challenges are one more than a request can hold, three links one more than there are
requests. `ServerStarts` has one migration of each kind (repeatable, rebuilding a table, once only), and two settings so that a load can fall between two writes; the updates change both, take one back, and store a value that cannot be parsed next to an empty one.
Two ids in `AccountsDeleted` are all that two requests bring into being, since all accounts want one name: a third adds no state. Two addresses are one to be replaced and one to replace it; they are interchangeable. Five certificates are a root, two intermediaries, and a refresh or two
leaves, or a root, one intermediary and three leaves, one more than two requests may orphan. A second root needs seven and is left to the proofs.

Some runs cut behaviours off with a named CONSTRAINT of their MC module; the state at which one is cut is still checked, and the theorems know no such bound.

| Run | Constraint | A behaviour is followed |
|---|---|---|
| `DeviceGrants` | `NothingMissed` | until a consumption, or the revocation of a deactivation, has failed |
| `MfaChallenges` | `NothingLost`, `SecondUnderBoth` | until an UPDATE is lost, after which nothing is counted; a second challenge only while both factors are allowed |
| `EmailSignIns` | `NothingLost`, `UnapprovedAlone` | until a mark is lost; a code issued without consent, only while there is no link |
| `ServerStarts` | `Followed` | without requests or changes once migrations were disturbed; changes of the settings only when there is one administrator |
| `AccountsDeleted` | `FewRows` | with at most three things that refer to an account; if it has an address, at most one and a password, and none while a link or an update is about the address |
| `CertificatesIssued` | `Filling` | to the fifth certificate |

`Operations` selects what arrives in an instance, so that each run stays within minutes; together they run every operation. The
instances of `Certificates` and of the claim have finitely many rows and may come to rest.

**Fairness** (`TokenLive` only). Weak fairness of each request step: a goroutine that has begun runs on. Weak fairness of
the cleanup goroutine: the ticker keeps ticking and every statement returns. Weak fairness of an account operation's second
statement: the handler runs on. No fairness of arrivals, of the user coming back, of time, or of any failure *not* happening.

**Mutants.** Each property of each passing run has a mutant of the code's model (next to the definition it changes) under
which TLC finds it violated: a dropped guard, a forgotten statement, the wrong column.

## 4. What is proved

Every theorem holds for all sets of users, rows, passwords, secrets, scopes, settings and certificates and every choice of operations, from the named
assumptions of the modules: that `None` is no row, that intervals and thresholds are numbers, and, where requests are counted, that there are finitely many at a time.

| Theorems | State |
|---|---|
| `InductiveInvariant`, `DeviceInvariant`, `UserRowInvariant` | the inductive invariants of `TokenEndpoint`, `DeviceGrant`, `UserRow` |
| `TypeCorrect`, `DeviceTypeCorrect`, `UserRowTypeCorrect`, `TypesKept` (in four modules) | the type invariants |
| `ParentRetired`, `CodeSpent` | what was presented is spent before a grant exists |
| `RedemptionsFew` | a code or refresh token yields at most as many grants as requests overlap |
| `LinksInherited`, `SubjectsInherited` | a grant keeps the browser login and the user of what it came from |
| `CascadeReachesAll`, `DeactivationReachesAll` | revocations reach everything inserted before |
| `RegistryImplemented` | `Spec => RegistrySpec`: the token endpoint implements the registry |
| `DeviceImplements`, `DevicesInRegistry` | `DeviceSpec => Spec`: the device grant implements the token endpoint, and through it the registry |
| `CodesAreGoodOnce`, `ApprovalsAreGoodOnce`, `LinksAreGoodOnce`, `ChallengesAreGoodOnce` | authorization codes, device codes, links with passkey challenges, and second-factor challenges implement `OneTimeToken` |
| `CascadeReachesDevices`, `DeactivationReachesDevices` | carried over by that refinement |
| `OnlyApproved`, `DeviceSpent`, `EverySlowDownCounts`, `AnswerStands` | the device grant's own properties |
| `LockIsReached` | before a lock fewer wrong passwords are counted than there are profiles |
| `LockStopsGuessing`, `EnrolledSecretProven` | fewer wrong passwords are compared under a lock than there are goroutines; a secret that is asked for was proven, unless `UpdateUser` set the flag |
| `GuessesFew`, `EntriesFew`, `DevicesEarned` | the three properties of `MfaChallenge` |
| `LinksSpent`, `LinksFew`, `ConsentAsked` | the three of `EmailSignIn` and `Consent` |
| `SchemaServed`, `FailuresDisturbed`, `SettingsCurrent`, `AdministratorMade`, `AdminsFew` | the five of `Server` and `Schema` |
| `DeletionsBlockedForReason`, `RegistrationsKept`, `AddressesProven`, `IdentitiesLinked` | the four of `Accounts` |
| `LateUsesBounded`, `OrphansFew` | the two of `Certificates` |

**The argument.** None of the properties is inductive: a goroutine between two statements carries what it read, and the
property must survive its next write. Each invariant says what it may still rely on.

*Token endpoint.* `RowsAgree`: an inserted row belongs to a
user, and to a login of that user. `RequestsAgree`: what a request has loaded agrees with the rows, whatever state they are in by now. `GrantsReserved`: a
grant whose token is inserted but whose session is not belongs to one request. `SpendsFirst`: who is about to insert has
spent what it presented. `ResetDrains`: between the two statements of a password reset, only sessions inserted in between are live.
The proof has a frame lemma (`StepFrame`: what each step may do to a row), one preservation lemma per conjunct, and under it
one step per action that disturbs it. On top of it stand three smaller invariants. `Carries`: what a request will write as the login of a session is that of its code or parent.
`Within`: the grants of a code and the requests that may still insert one are together no more than the requests at a time, because nobody joins
once there is a grant. `SubjectsAgree`: the two rows of a grant have one user; from this and the frame a step that is neither of the two INSERTs can only end grants, which is `RegistryImplemented`. `SubjectInv` adds what a request has loaded from its code, and carries the user along.

*Device grant.* `DeviceInv` adds, per goroutine, `PollAgrees`: the approval a poll has read still stands (because `AuthorizeDeviceCode` and
`DenyDeviceCode` only move a pending row), it is held by the row until it is consumed, and a poll about to issue has consumed the code or failed
to. `DeviceRowsStep` shows that every step moves a row along pending, one answer, consumed, deleted; `Simulation` that every step is one of the token endpoint or none.

*Rows that are good once.* Nothing brings a row back to good, and only a step that reads it good adds a holder. The step that uses it finds it
spent, or leaves a debt that the mark behind it pays; `uses` counts grants that exist, so it needs that a row is inserted once (`GrantsReserved`, `IssuedRows`). Only a failed UPDATE, or a restart, forgets a debt:
`Reliable` says when there is none, and from then on `OneTimeToken` says nothing about uses (of authorization codes nothing is ever lost: a failed mark ends the request).

*User's row.* `LateBudget`: while the lock stands, the wrong passwords counted under it and the checks still
under way are together fewer than the goroutines; the request that locked the account has spent its own, and no check starts under a lock. `SavesProven`:
a request about to save a secret saves one that a code was checked against, because nobody generates a secret that is already held.
`GuessesSpent`, for `LockReached`: the *profile* says for every count `n` below the threshold how many requests could still write back a count above `n`. A counted wrong password that does not lock
moves the profile on, in the order `Before` that compares two profiles from the lowest count up, and no other step moves it back unless it clears the counter. So each counted failure has a profile of its own behind it, and
there are only `Cardinality(Profiles)` of them. No induction over the count is needed; that this number is the binomial is checked by TLC.

*Second factor.* While a challenge is open nobody has been let in, and the wrong codes are those the row counts and leave room for the request that will
close it; once it is closed, wrong codes and the requests still to compare one stay within `Limit + 2 (P - 1)`, since a count that was read is no higher than the row's. Entries and those about to enter are no more than `P`.

*Links and consent.* The uses of a link and the requests that will use it are no more than `P`; while a link is not spent its uses are no more than
the requests that have still to mark it; the good links of a kind and the requests about to create one are no more than `P`. The stored consent was approved together.

*Schema and settings.* A migration is done once the version has passed it, and what is done stays so, with one exception: a rebuild that another run, which still read the old version, has
begun once more, and only after a disturbance. Every program that runs migrations is past what it has done itself, however the version is set back. As long as no run was disturbed, the tables
stand at the version, or one program is just past it. While nobody has disturbed a load since it read the table (`reader`), what it has still to assign is what loading the table as it is now would make of memory;
when it is the last one, it ends what was stale. Administrators and the requests that onboard are no more than `P`.

*Accounts.* At most one account exists at a time. Whoever deletes an account does not know it as one that was in use; what a deletion has deleted is gone unless somebody inserted
behind it, who is marked late; an account made for an identity is about to be looked up or linked until it is. For the addresses there is a second invariant on top: the address of a verified account, and the
one that an update is about to write together with the flag, each have somebody who answers for them, by a link, as an administrator, or as a named mistake; so the UPDATE may come as late as it likes.

*Certificates.* For every key, its late uses, the requests that hold it and those that will use it twice are no more than `2 P`: a retired row is read by nobody new. The orphans and the requests that sign
with a deleted intermediary's key are no more than `P`.

**Only model-checked**: the liveness properties (`IdleLoginCloses`, `DeactivationSettles`), which are out of the prover's reach, and the
equality of `Cardinality(Profiles)` with a binomial coefficient, which needs an induction over data. Of the finding, the run is the evidence.
**Only proved**: `RegistrySpec` of the device grant, `SubjectInherited`, and the four refinements of `OneTimeToken`.

## 5. Where the code and its words disagree

`RefreshLifetimeKept` is a finding in `PROJECT.json`: `docs-web/docs/configuration/runtime-settings.mdx:48` says that the refresh token expiration "controls how long a user stays logged in",
but sessions are purged by the expiry of the access token.

Stated in the modules, and refuted by the same interleavings that the properties bound:

* `CodeSingleUse`: `docs-web/docs/protocol/authorization-code.mdx:94` calls a code single-use. The UPDATE that marks it used does not look at the rows it affected (`auth_code/update.go`). The
  same holds of a device code (`devicecode/update.go`); `RedemptionsBounded` says how far it goes.
* `ReuseRevokesIssued`: the revocation on a replay (`token/authorization_code.go:31`) filters by grant type and misses what was refreshed.
* `DeactivationImmediate`: `user/delete.go:95` promises that deactivation "immediately revokes all tokens"; a request past its look-up of the user is not seen by it.
* `LockedAtMaxAttempts`: `docs-web/docs/users/account-lockout.mdx:21` promises a number of consecutive failures before
  the lock; two overlapping ones count once (`user/authenticate.go:37`). `LockReached` is what holds.
* `ValuesPreserved`: `user/update.go:12` reads the row "to preserve values" and writes them back in a later statement. A
  profile update that overlaps a password change restores the old password.
* `CodesApproved`: `docs-web/docs/authentication/consent.mdx:34` says that users must approve scopes before a code is issued. Passkeys
  (`passkey/handler.go:661`), federation (`federation/handler.go:278`), signing up (`signup/handler.go:207`) and e-mail verification (`emailverification/handler.go:161`) do not look at the consent; `CodesConsented` holds of the ways that do.

Met while modelling, and seen in the guards of the modules:

* A change of the address clears `is_email_verified` and keeps the verification link that is out, which then verifies the new address (`mistaken`).
* `account/profile.go:105` compares the address asked for with the one the middleware has read, and `UpdateUser` reads the row anew: asking for the address that another update has just replaced brings
  it back with the flag of the new one (`mistaken`, too). An administrator's update (`user/handler.go:120`) may set the flag, or change the address and keep it; in the model he vouches for it.
* `appsettings/load.go:85` says that existing values are never overwritten: `EnsureDefaults` overwrites empty ones, and those whose SELECT fails.
* Only durations are validated before they are stored (`appsettings/handler.go:37`). Another value that does not parse is stored, reported by the API and not in force: what was in memory stays, until a restart puts the built-in value there.
* When two programs migrate one file, or one is stopped, a rebuild that is begun once more can drop a table that was already rebuilt while a server is up, and with a stop before the rename
  nobody makes it again: the version says that the migration is done. `SchemaComplete` says that this is the only way.
* `passkey/handler.go:426` leaves "fully registered accounts" intact, by a `registered_at` read earlier; `RegistrationKept` says what that is worth.
* `account/federation.go:95` counts the ways to sign in and deletes in a later statement: two requests may remove the last two.
* `docs-web/docs/users/account-deletion.mdx:142` lists consent records among what is deleted; `consent.DeleteConsent` and `DeleteConsentByUser` are never called.
  `HardDeleteUser` does not delete magic links, reset links and device codes, whose foreign keys then stop it (`DeletionBlocked`).
* `docs-web/docs/configuration/runtime-settings.mdx:8` says that changes take effect on the next request: a change is stored and loaded in separate statements, a load that fails leaves the old values until the next, and the interval and retention of the cleanup are read once at the start (`cli/start.go:309`).
* Wrong codes are counted per challenge; switching the method starts a new one (`SwitchCreate`).
* `autentico ca mtls-bundle` reuses a user's certificate however old; overlapping `ca refresh` leave several active intermediaries, and one that stops between the revocation
  and the INSERT leaves none until the next; revoking an intermediary leaves its leaves valid.

## 6. What is not modelled

* **Rate limiter**: token buckets of `golang.org/x/time/rate` that measure real time. What goes wrong there is arithmetic on durations, which a model without a clock cannot show.
* **Clients, groups, API tokens**: single statements on rows of their own; authentication of a client is a predicate on one row and one request.
* **Audit log**: append-only, read by nobody who decides.
* **Introspection, userinfo, discovery, listings**: they only read; introspection agrees with `Live`.
* **Keys, JWT, WebAuthn, TOTP and certificate cryptography**: a library's; expiry enters as the clock actions, success as a choice.
* **E-mail, federation discovery**: network I/O whose failure is the failure of the step behind it.
* **HTTP plumbing** (CORS, CSRF, logging, security headers) wraps one request and keeps nothing; **front ends** hold no state of the provider.
* Of the components that are `partly` modelled, `PROJECT.json` says what is left out: `client_credentials` grants, which nothing reads back; scope and audience checks of bearers; the sign count of passkeys;
  the commands `init` and `version`; columns no other handler decides on.
