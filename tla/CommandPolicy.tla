---------------------------- MODULE CommandPolicy ----------------------------
(***************************************************************************)
(* The Command Policy of qmp_execute: names, the lists they are looked up    *)
(* in, the overrides of the environment and of a policy file, the verdict.   *)
(* A name as it comes is a record: its spelling, and whether blanks surround  *)
(* it or capitals are in it; normalizing takes both away.                   *)
(***************************************************************************)
EXTENDS Sequences

Spellings == {"plain", "blanks", "capitals"}
As(name, spelling) == [name |-> name, spelling |-> spelling]

\* trim and lower-case
NormalizeCommandName(raw) == raw.name

HardDenylist == {
    "human-monitor-command", "migrate", "migrate-incoming", "migrate-set-parameters",
    "migrate-set-capabilities", "migrate-recover", "migrate-continue", "migrate-pause",
    "migrate-start-postcopy", "xen-save-devices-state", "xen-load-devices-state",
    "dump-guest-memory", "pmemsave", "memsave", "object-add", "blockdev-add", "device_add",
    "netdev_add", "chardev-add", "chardev-change", "ringbuf-write", "qom-set", "getfd",
    "add-fd", "drive-backup", "blockdev-backup", "drive-mirror", "blockdev-mirror",
    "blockdev-create", "block-export-add", "nbd-server-start", "nbd-server-add",
    "block-commit", "block-stream", "block_resize", "blockdev-snapshot",
    "blockdev-snapshot-sync", "blockdev-snapshot-internal-sync"}

DefaultAllowlist == {
    "query-status", "query-version", "query-name", "query-uuid", "query-kvm",
    "query-accelerators", "query-target", "query-cpus-fast", "query-cpu-definitions",
    "query-hotpluggable-cpus", "query-memory-size-summary", "query-memdev", "query-balloon",
    "query-block", "query-blockstats", "query-block-jobs", "query-named-block-nodes",
    "query-pci", "query-chardev", "query-iothreads", "query-machines", "query-commands",
    "query-qmp-schema", "query-vnc", "query-spice", "query-mice", "stop", "cont",
    "system_reset", "system_powerdown"}

IsHardDenied(name) == name \in HardDenylist

\* An override list as sets of raw names; an empty entry is dropped.
Names(entries) == {NormalizeCommandName(e) : e \in entries} \ {""}

PolicyOverrides(allow, deny) == [allow |-> allow, deny |-> deny]
BuildPolicy(overrides) ==
    [allow |-> DefaultAllowlist \cup Names(overrides.allow), deny |-> Names(overrides.deny)]

\* The default policy: no override.
DefaultPolicy == BuildPolicy(PolicyOverrides({}, {}))

Allowed(name) == [allowed |-> TRUE, command |-> name, hard |-> FALSE]
Denied(name, hard) == [allowed |-> FALSE, command |-> name, hard |-> hard]

\* Mutation of DecideCommand: an allow override is looked at first.
DecideCommandAllowFirst(policy, raw) ==
    LET name == NormalizeCommandName(raw) IN
    IF name \in policy.allow THEN Allowed(name) ELSE Denied(name, IsHardDenied(name))

\* Hard denylist, override deny, allowlist, or nothing: deny.
DecideCommand(policy, raw) ==
    LET name == NormalizeCommandName(raw) IN
    IF IsHardDenied(name) THEN Denied(name, TRUE)
    ELSE IF name \in policy.deny THEN Denied(name, FALSE)
    ELSE IF name \in policy.allow THEN Allowed(name)
    ELSE Denied(name, FALSE)

\* The policy file: not named, not readable, no YAML, of another shape (a key
\* that is neither allow nor deny), or its lists.  An empty one has none.
PolicyFiles(allow, deny) ==
    {[is |-> k] : k \in {"unset", "unreadable", "malformed", "misshapen", "empty"}} \cup
    {[is |-> "lists", allow |-> allow, deny |-> deny]}
LoadPolicyFile(file) ==
    CASE file.is \in {"unset", "empty"} -> PolicyOverrides({}, {})
      [] file.is = "lists" -> PolicyOverrides(file.allow, file.deny)
PolicyFileFails(file) == file.is \in {"unreadable", "malformed", "misshapen"}

\* QMP_MCP_ALLOW, QMP_MCP_DENY and the file add up; a file that fails, fails
\* the start.
ResolvePolicy(allow, deny, file) ==
    BuildPolicy(PolicyOverrides(allow \cup LoadPolicyFile(file).allow,
                                deny \cup LoadPolicyFile(file).deny))
=============================================================================
