-------------------------------- MODULE SealedBlobs --------------------------------
(***************************************************************************)
(* Sealed payloads: the key broker (packages/key-broker), the blob store   *)
(* (packages/blob-store), and the services behind their HTTP variants, the *)
(* privacy gateway and the enterprise KMS (apps/privacy-gateway,           *)
(* apps/enterprise-kms).                                                   *)
(*                                                                         *)
(* A payload is sealed under a key of its own, which is kept wrapped under *)
(* the key of its workspace.  A sealed payload is named by the call that   *)
(* sealed it, a key of a workspace by the call that made it or, where keys *)
(* are derived, by the workspace.  The broker's in-memory mode, which      *)
(* forgets everything at a restart, is left out, and so are names of       *)
(* tenants and workspaces that hold a separator.                           *)
(***************************************************************************)
EXTENDS Naturals

CONSTANTS
    Seals,      \* calls of sealJson
    Opens,      \* calls of readJson
    Workspaces, Visibilities, Roles,
    MaxCrashes,
    Nothing, Empty

\* How the services are configured.
Configs ==
    [kms        : {"file", "gateway"},      \* CLAWZ_KEY_BROKER_MODE
     objects    : {"local", "gateway"},     \* CLAWZ_BLOB_STORE_MODE
     provider   : {"local-root", "external-hsm-derive"},
     derivation : {"command-adapter", "http-forwarder", "local-dev-root"},
     production : BOOLEAN, regulated : BOOLEAN, credentials : BOOLEAN, open : BOOLEAN]

\* createPrivacyGatewayApp starts.
GatewayStarts(c) ==
    /\ c.production => c.credentials \/ c.open
    /\ c.regulated => c.provider = "external-hsm-derive"
    /\ c.provider = "external-hsm-derive" /\ c.production => c.credentials

\* createEnterpriseKmsApp starts.
EnterpriseKmsStarts(c) ==
    /\ c.production => c.credentials \/ c.open
    /\ c.production => c.derivation # "local-dev-root"
    /\ c.derivation = "http-forwarder" /\ c.production => c.credentials

VARIABLES
    config,
    keyFile,    \* workspace -> the file of its key: Nothing, Empty while it is made, a key
    audit,      \* the workspaces in the audit file of the enterprise KMS
    record,     \* sealed payload -> the record of its wrapped key
    cipher, manifest, deletion,     \* sealed payload -> "none", "torn" or "there"
    seal, open, expiry,             \* calls
    crashes

blobVars ==
    <<config, keyFile, audit, record, cipher, manifest, deletion, seal, open, expiry, crashes>>

External == config.kms = "gateway" /\ config.provider = "external-hsm-derive"

Records == [workspace : Workspaces, visibility : Visibilities, under : Seals \union Workspaces,
            revoked : BOOLEAN]

-----------------------------------------------------------------------------
(* Sealing.                                                                *)

BeginSeal(s, w, visibility) ==
    /\ seal[s].pc = "idle"
    /\ seal' = [seal EXCEPT ![s] = [pc |-> "key", workspace |-> w, visibility |-> visibility,
                                    under |-> Nothing]]
    /\ UNCHANGED <<config, keyFile, audit, record, cipher, manifest, deletion, open, expiry,
                   crashes>>

Has(s, key) == [seal EXCEPT ![s] = [@ EXCEPT !.pc = "wrap", !.under = key]]

\* A file that is still empty decodes to a key of no bytes, with which nothing is sealed.
ReadKeyFile(s) ==
    seal' = IF keyFile[seal[s].workspace] = Empty THEN [seal EXCEPT ![s].pc = "failed"]
            ELSE Has(s, keyFile[seal[s].workspace])

\* readOrCreateKey: the file is created empty, unless there is one by now, which is read.
CreateKey(s) ==
    /\ seal[s].pc = "create"
    /\ IF keyFile[seal[s].workspace] = Nothing
       THEN /\ keyFile' = [keyFile EXCEPT ![seal[s].workspace] = Empty]
            /\ seal' = [seal EXCEPT ![s].pc = "fill"]
       ELSE ReadKeyFile(s) /\ UNCHANGED keyFile

\* FileTenantKms
FileKey(s) ==
    /\ config.kms = "file"
    /\ \/ /\ seal[s].pc = "key"
          /\ IF keyFile[seal[s].workspace] = Nothing
             THEN seal' = [seal EXCEPT ![s].pc = "create"]
             ELSE ReadKeyFile(s)
          /\ UNCHANGED keyFile
       \/ CreateKey(s)
       \/ /\ seal[s].pc = "fill"
          /\ keyFile' = [keyFile EXCEPT ![seal[s].workspace] = s]
          /\ seal' = Has(s, s)
    /\ UNCHANGED <<config, audit, record, cipher, manifest, deletion, open, expiry, crashes>>

\* Mutant: the key is answered before the line is written.
DeriveUnaudited(s) ==
    /\ seal[s].pc = "key"
    /\ seal' = Has(s, seal[s].workspace)
    /\ UNCHANGED audit

\* The gateway derives the key itself or asks the enterprise KMS.
GatewayDerives(s) ==
    /\ seal[s].pc = "key"
    /\ seal' = IF External THEN [seal EXCEPT ![s].pc = "audit"] ELSE Has(s, seal[s].workspace)
    /\ UNCHANGED audit

\* POST /derive-key: the line is written before the key is answered.
EnterpriseKmsDerives(s) ==
    /\ seal[s].pc = "audit"
    /\ audit' = audit \union {seal[s].workspace}
    /\ seal' = Has(s, seal[s].workspace)

\* The provider, the audit file or the network fails.
DeriveFails(s) ==
    /\ seal[s].pc \in {"key", "audit"}
    /\ seal' = [seal EXCEPT ![s].pc = "failed"]
    /\ UNCHANGED audit

Derive(s) == GatewayDerives(s) \/ EnterpriseKmsDerives(s) \/ DeriveFails(s)

\* HttpTenantKms
DerivedKey(s) ==
    /\ config.kms = "gateway"
    /\ Derive(s)
    /\ UNCHANGED <<config, keyFile, record, cipher, manifest, deletion, open, expiry, crashes>>

\* wrapDataKey: the record replaces its file at once.
Wrap(s) ==
    /\ seal[s].pc = "wrap"
    /\ record' = [record EXCEPT ![s] =
           [workspace |-> seal[s].workspace, visibility |-> seal[s].visibility,
            under |-> seal[s].under, revoked |-> FALSE]]
    /\ seal' = [seal EXCEPT ![s].pc = "cipher"]
    /\ UNCHANGED <<config, keyFile, audit, cipher, manifest, deletion, open, expiry, crashes>>

\* The gateway writes an object in place ...
GatewayWrites(before, after) ==
    IF before = "torn" THEN after \in {"torn", "there"} ELSE after = "torn"

\* ... and a request that fails is sent again up to ten times before the call fails.  A
\* local object is there at once.
Written(before, after) ==
    IF config.objects = "local" THEN after = "there" ELSE GatewayWrites(before, after)

PutCipher(s) ==
    /\ seal[s].pc = "cipher"
    /\ \E after \in {"torn", "there"} :
          /\ Written(cipher[s], after)
          /\ cipher' = [cipher EXCEPT ![s] = after]
          /\ \E pc \in IF after = "there" THEN {"manifest"} ELSE {"cipher", "failed"} :
                seal' = [seal EXCEPT ![s].pc = pc]
    /\ UNCHANGED <<config, keyFile, audit, record, manifest, deletion, open, expiry, crashes>>

PutManifest(s) ==
    /\ seal[s].pc = "manifest"
    /\ \E after \in {"torn", "there"} :
          /\ Written(manifest[s], after)
          /\ manifest' = [manifest EXCEPT ![s] = after]
          /\ \E pc \in IF after = "there" THEN {"done"} ELSE {"manifest", "failed"} :
                seal' = [seal EXCEPT ![s].pc = pc]
    /\ UNCHANGED <<config, keyFile, audit, record, cipher, deletion, open, expiry, crashes>>

-----------------------------------------------------------------------------
(* Opening.                                                                *)

\* evaluateAccess
Allowed(r, role, exception) ==
    /\ ~r.revoked
    /\ r.visibility = "ephemeral" => role = "participant"
    /\ ~(r.visibility = "team-sealed" /\ role = "operator")
    /\ \/ r.visibility = "operator-blind" /\ role = "operator"
       \/ r.visibility = "compliance-sealed" /\ role # "compliance-reviewer"
       => exception

BeginOpen(o, s, role, exception) ==
    /\ open[o].pc = "idle" /\ manifest[s] = "there"
    /\ open' = [open EXCEPT ![o] = [pc |-> "cipher", of |-> s, role |-> role,
                                    exception |-> exception, under |-> Nothing]]
    /\ UNCHANGED <<config, keyFile, audit, record, cipher, manifest, deletion, seal, expiry,
                   crashes>>

OpenStep(o, from, ok, next) ==
    /\ open[o].pc = from
    /\ open' = [open EXCEPT ![o].pc = IF ok THEN next ELSE "failed"]
    /\ UNCHANGED <<config, keyFile, audit, record, cipher, manifest, deletion, seal, expiry,
                   crashes>>

ReadCipher(o) == OpenStep(o, "cipher", cipher[open[o].of] = "there", "unwrap")

\* unwrapDataKey looks at the record and then asks for the key of the workspace.
AskAccess(o) ==
    OpenStep(o, "unwrap", /\ record[open[o].of] # Nothing
                          /\ Allowed(record[open[o].of], open[o].role, open[o].exception),
             "decrypt")

\* The key of a workspace as a reader gets it; the derived one is the same for ever.
CurrentKey(w) == IF config.kms = "file" THEN keyFile[w] ELSE w

Decrypt(o) ==
    OpenStep(o, "decrypt", record[open[o].of].under = CurrentKey(record[open[o].of].workspace),
             "opened")

-----------------------------------------------------------------------------
(* Expiry.                                                                 *)

\* expireManifest; the policy says whether the key is revoked.
BeginExpiry(s, revoke) ==
    /\ expiry[s].pc \in {"idle", "done"} /\ manifest[s] = "there"
    /\ expiry' = [expiry EXCEPT ![s] =
           [pc |-> IF revoke THEN "revoke" ELSE "cipher", revoke |-> revoke]]
    /\ UNCHANGED <<config, keyFile, audit, record, cipher, manifest, deletion, seal, open,
                   crashes>>

ExpireStep(s) ==
    \/ /\ expiry[s].pc = "revoke"
       /\ record' = [record EXCEPT ![s].revoked = TRUE]
       /\ expiry' = [expiry EXCEPT ![s].pc = "cipher"]
       /\ UNCHANGED <<cipher, manifest, deletion>>
    \/ /\ expiry[s].pc = "cipher"
       /\ cipher' = [cipher EXCEPT ![s] = "none"]
       /\ expiry' = [expiry EXCEPT ![s].pc = "manifest"]
       /\ UNCHANGED <<record, manifest, deletion>>
    \/ /\ expiry[s].pc = "manifest"
       /\ manifest' = [manifest EXCEPT ![s] = "none"]
       /\ expiry' = [expiry EXCEPT ![s].pc = "deletion"]
       /\ UNCHANGED <<record, cipher, deletion>>
    \/ /\ expiry[s].pc = "deletion"
       /\ \E after \in {"torn", "there"} :
             /\ Written(deletion[s], after)
             /\ deletion' = [deletion EXCEPT ![s] = after]
             /\ expiry' = [expiry EXCEPT ![s].pc = IF after = "there" THEN "done" ELSE @]
       /\ UNCHANGED <<record, cipher, manifest>>

Expire(s) ==
    /\ ExpireStep(s)
    /\ UNCHANGED <<config, keyFile, audit, seal, open, crashes>>

\* A restart of the process that seals, opens and expires.
Crash ==
    /\ crashes < MaxCrashes
    /\ crashes' = crashes + 1
    /\ seal' = [s \in Seals |-> IF seal[s].pc \in {"idle", "done"} THEN seal[s]
                                ELSE [seal[s] EXCEPT !.pc = "failed"]]
    /\ open' = [o \in Opens |-> IF open[o].pc \in {"idle", "opened"} THEN open[o]
                                ELSE [open[o] EXCEPT !.pc = "failed"]]
    /\ expiry' = [s \in Seals |-> [expiry[s] EXCEPT !.pc = IF @ = "idle" THEN @ ELSE "done"]]
    /\ UNCHANGED <<config, keyFile, audit, record, cipher, manifest, deletion>>

-----------------------------------------------------------------------------
BlobInit ==
    /\ config \in {c \in Configs : GatewayStarts(c) /\ EnterpriseKmsStarts(c)}
    /\ keyFile = [w \in Workspaces |-> Nothing] /\ audit = {}
    /\ record = [s \in Seals |-> Nothing]
    /\ cipher = [s \in Seals |-> "none"] /\ manifest = [s \in Seals |-> "none"]
    /\ deletion = [s \in Seals |-> "none"]
    /\ seal = [s \in Seals |-> [pc |-> "idle", workspace |-> Nothing, visibility |-> Nothing,
                                under |-> Nothing]]
    /\ open = [o \in Opens |-> [pc |-> "idle", of |-> Nothing, role |-> Nothing,
                                exception |-> FALSE, under |-> Nothing]]
    /\ expiry = [s \in Seals |-> [pc |-> "idle", revoke |-> FALSE]]
    /\ crashes = 0

BlobNext ==
    \/ \E s \in Seals :
          \/ \E w \in Workspaces, v \in Visibilities : BeginSeal(s, w, v)
          \/ FileKey(s) \/ DerivedKey(s) \/ Wrap(s) \/ PutCipher(s) \/ PutManifest(s)
          \/ \E revoke \in BOOLEAN : BeginExpiry(s, revoke)
          \/ Expire(s)
    \/ \E o \in Opens :
          \/ \E s \in Seals, role \in Roles, exception \in BOOLEAN :
                BeginOpen(o, s, role, exception)
          \/ ReadCipher(o) \/ AskAccess(o) \/ Decrypt(o)
    \/ Crash

BlobSpec == BlobInit /\ [][BlobNext]_blobVars

-----------------------------------------------------------------------------
Parts == {"none", "torn", "there"}

\* Every variable has its type.
BlobTypeOK ==
    /\ config \in Configs
    /\ \A w \in Workspaces : keyFile[w] \in {Nothing, Empty} \union Seals
    /\ audit \subseteq Workspaces
    /\ \A s \in Seals :
          /\ record[s] \in Records \union {Nothing}
          /\ cipher[s] \in Parts /\ manifest[s] \in Parts /\ deletion[s] \in Parts
          /\ seal[s].pc \in {"idle", "key", "create", "fill", "audit", "wrap", "cipher",
                             "manifest", "done", "failed"}
          /\ expiry[s].pc \in {"idle", "revoke", "cipher", "manifest", "deletion", "done"}
    /\ \A o \in Opens : open[o].pc \in {"idle", "cipher", "unwrap", "decrypt", "opened", "failed"}

\* A payload whose manifest is there, and which no expiry has touched, can be opened: its
\* cipher and its wrapped key are there, and the key of its workspace is still the one it
\* was wrapped under, although two calls may make the first key of a workspace at the same
\* time (sealJson, wrapDataKey, readOrCreateKey).
SealedIsReadable ==
    \A s \in Seals : manifest[s] = "there" /\ expiry[s].pc = "idle" =>
        /\ cipher[s] = "there" /\ record[s] # Nothing /\ ~record[s].revoked
        /\ record[s].under = CurrentKey(record[s].workspace)

\* Where a deletion is on record, the cipher and the manifest are gone for good, and so is
\* the key if the policy says so (expireManifest, revokeKey).
DeletionsAreTrue ==
    \A s \in Seals : deletion[s] # "none" =>
        /\ cipher[s] = "none" /\ manifest[s] = "none"
        /\ expiry[s].revoke => record[s].revoked

\* Every key of the enterprise KMS that wraps a payload has its line in the audit file
\* (POST /derive-key).
KeysAreAudited ==
    External => \A s \in Seals : record[s] # Nothing => record[s].under \in audit
=============================================================================
