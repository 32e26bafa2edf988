----------------------------- MODULE HardwareSpec ----------------------------
(***************************************************************************)
(* From what an agent asks for to the arguments QEMU is started with: the    *)
(* untrusted candidate, the validated Hardware Spec, the accelerator, and    *)
(* the pure generator of the argument vector.  A candidate is a function on  *)
(* the fields it gives.  An argument is its flag with what matters of its     *)
(* value: the agent's words, the files, the fixed properties, the numbers.    *)
(* Whatever can be refused yields an option, a set of at most one value.     *)
(***************************************************************************)
EXTENDS Stores, SequencesExt

AccelMode == {"auto", "kvm", "tcg"}
DisplayMode == {"none", "vnc"}
DisplayDevice == {"none", "virtio-gpu", "vga", "ramfb"}
QemuDevice(device) ==
    CASE device = "none" -> {}
      [] device = "virtio-gpu" -> {"virtio-gpu-pci"}
      [] device = "vga" -> {"VGA"}
      [] device = "ramfb" -> {"ramfb"}
DiskInterface == {"virtio", "ide", "scsi", "sd"}
NicModel == {"virtio-net-pci", "e1000", "rtl8139", "usb-net"}
IsPci(model) == model # "usb-net"
NetworkMode == {"user", "tap", "bridge", "none"}
NetProtocol == {"tcp", "udp"}

IsValidMachineCpu(word) == Token(word, {".", "_", "+", "-"})
\* Drive letters a to d, n and p: the plain words "d" and "dc" here.
IsValidBootOrder(word) == word \in {"d", "dc", "n"}

RaspiMachines == {"raspi0", "raspi1ap", "raspi2b", "raspi3ap", "raspi3b", "raspi4b"}
IsRaspiMachine(machine) == machine \in RaspiMachines
Aarch64Machines == {"virt", "sbsa-ref"}
MachineArch(machine) ==
    IF IsRaspiMachine(machine) \/ machine \in Aarch64Machines THEN "aarch64" ELSE "x86_64"
\* A binary is its prefix and the rest of its name.
QemuBinaryForMachine(machine) == <<"qemu-system-", MachineArch(machine)>>
QemuArchOfBinary(binary) == binary[2]

\* One line of printable characters, 2048 at most.
ValidAppendCmdline(line) == line \notin {"", "too long"} /\ "CTRL" \notin CharSet(line)

DiskParams(image) ==
    [image |-> image, interface |-> "virtio", format |-> "qcow2", readonly |-> FALSE]
HostForwardParams(hostPort, guestPort) ==
    [hostPort |-> hostPort, guestPort |-> guestPort, proto |-> "tcp"]
NetworkParams == [mode |-> "user", model |-> "virtio-net-pci", hostForwards |-> <<>>]
HardwareSpecParams == [
    machine |-> "q35", cpu |-> "max", vcpus |-> 1, memoryMb |-> 256, accel |-> "auto",
    display |-> "none", displayDevice |-> "none", disks |-> <<>>, cdrom |-> {},
    share |-> FALSE, serial |-> FALSE, serialSpool |-> {}, boot |-> {}, kernel |-> {},
    initrd |-> {}, dtb |-> {}, appendCmdline |-> {}, network |-> NetworkParams,
    extraArgs |-> <<>>]
\* The defaults, where the candidate gives nothing.
WithDefaults(candidate) ==
    [f \in DOMAIN HardwareSpecParams |->
        IF f \in DOMAIN candidate THEN candidate[f] ELSE HardwareSpecParams[f]]

\* No field nobody knows, and every enumeration one of its values.
Deserializes(candidate) ==
    /\ DOMAIN candidate \subseteq DOMAIN HardwareSpecParams
    /\ LET p == WithDefaults(candidate) IN
       /\ p.accel \in AccelMode
       /\ p.display \in DisplayMode
       /\ p.displayDevice \in DisplayDevice
       /\ p.network.mode \in NetworkMode
       /\ p.network.model \in NicModel
       /\ \A i \in DOMAIN p.disks :
            p.disks[i].interface \in DiskInterface /\ p.disks[i].format \in ImageFormat

ValidateIntIn(raw, lo, hi) == lo <= raw /\ raw <= hi
ValidateOptionalName(option) == "" \notin option
ValidateHostForward(f) ==
    ValidateIntIn(f.hostPort, 1, 65535) /\ ValidateIntIn(f.guestPort, 1, 65535)
ValidateDisk(d) == d.image # ""

ValidSpec(p) ==
    /\ IsValidMachineCpu(p.machine)
    /\ IsValidMachineCpu(p.cpu)
    /\ ValidateIntIn(p.vcpus, 1, 255)
    /\ ValidateIntIn(p.memoryMb, 1, 1048576)
    /\ \A b \in p.boot : IsValidBootOrder(b)
    /\ \A i \in DOMAIN p.disks : ValidateDisk(p.disks[i])
    /\ ValidateOptionalName(p.cdrom)
    /\ \A i \in DOMAIN p.network.hostForwards : ValidateHostForward(p.network.hostForwards[i])
    /\ \A o \in {p.kernel, p.initrd, p.dtb} : ValidateOptionalName(o)
    /\ \A line \in p.appendCmdline : ValidAppendCmdline(line)
    /\ \A o \in {p.initrd, p.dtb, p.appendCmdline} : o # {} => p.kernel # {}
ParseHardwareSpec(candidate) ==
    IF Deserializes(candidate) /\ ValidSpec(WithDefaults(candidate))
    THEN {WithDefaults(candidate)} ELSE {}

\* kvm fails where it is not to be had; auto takes it where it can work.
ResolveAccel(requested, guestArch, hostArch, machine, kvmAvailable) ==
    CASE requested = "tcg" -> {"tcg"}
      [] requested = "kvm" -> IF kvmAvailable THEN {"kvm"} ELSE {}
      [] requested = "auto" ->
            {IF guestArch = hostArch /\ ~IsRaspiMachine(machine) /\ kvmAvailable
             THEN "kvm" ELSE "tcg"}

\* A comma is doubled, which takes its meaning away.
EscapeQemuOptsValue(word) ==
    CASE word = "a,b" -> "a,,b" [] word = "/a,b" -> "/a,,b" [] OTHER -> word
EscapePath(path) == [i \in DOMAIN path |-> EscapeQemuOptsValue(path[i])]

Arg(flag) == [flag |-> flag, words |-> {}, paths |-> {}, props |-> {}, numbers |-> {}]
Words(flag, words) == [Arg(flag) EXCEPT !.words = words]
Props(flag, props) == [Arg(flag) EXCEPT !.props = props]
Numbers(flag, numbers) == [Arg(flag) EXCEPT !.numbers = numbers]
Files(flag, paths, props) == [Arg(flag) EXCEPT !.paths = paths, !.props = props]

When(condition, args) == IF condition THEN args ELSE <<>>

BuildDriveArgs(disk, imageStore) ==
    {<<Files("-drive", {EscapePath(path)},
             {disk.format, disk.interface, "disk"} \cup (IF disk.readonly THEN {"readonly"} ELSE {}))>>
     : path \in ResolveImagePath(disk.image, imageStore)}

BuildCdromArgs(iso, isoStore) ==
    {<<Files("-drive", {EscapePath(path)}, {"cdrom", "readonly", "raw"})>>
     : path \in ResolveIsoPath(iso, isoStore)}

ResolveBootArtifact(flag, name, imageStore) ==
    {<<Files(flag, {path}, {})>> : path \in ResolveImagePath(name, imageStore)}

\* Only the operator's directory, read-only unless the operator says otherwise.
BuildShareArgs(o, raspi) ==
    IF o.hostShareDir # "" /\ ~raspi
    THEN {<<Files("-fsdev", {<<EscapeQemuOptsValue(o.hostShareDir)>>},
                  IF o.shareReadonly # {FALSE} THEN {"readonly"} ELSE {}),
            Props("-device", {"virtio-9p-pci"})>>}
    ELSE {}

ValidateSerialSpoolName(name) == Token(name, {".", "_", "-"})
ResolveSerialSpoolPath(spoolDir, serialSpool) ==
    IF spoolDir # "" /\ \A n \in serialSpool : ValidateSerialSpoolName(n)
    THEN {<<spoolDir>> \o SetToSeq(serialSpool) \o <<"serial.log">>} ELSE {}
SerialSocketPath(qmpSocketPath) == <<qmpSocketPath[1], "serial.sock">>
BuildSerialArgs(o, spec) ==
    LET chardev ==
          CASE o.serialBackend = "ringbuf" -> {Numbers("-chardev", {o.serialBufferBytes})}
            [] o.serialBackend = "spool" ->
                 {Files("-chardev", {EscapePath(path)}, {"file"})
                  : path \in ResolveSerialSpoolPath(o.serialSpoolDir, spec.serialSpool)}
            [] o.serialBackend = "socket" ->
                 {Files("-chardev", {EscapePath(SerialSocketPath(o.qmpSocketPath))}, {"socket"})}
    IN {<<c, Arg("-serial")>> : c \in chardev}

\* A NIC the board has a bus for; forwards from the operator's ports, with the
\* user mode only; the host's own network only where the operator allows it.
BuildNetworkArgs(network, machine, o) ==
    LET raspi == IsRaspiMachine(machine)
        ports == {network.hostForwards[i].hostPort : i \in DOMAIN network.hostForwards}
        device == Props("-device", {network.model})
    IN IF network.mode # "user" /\ ports # {} THEN {}
       ELSE IF network.mode = "none" THEN {<<>>}
       ELSE IF network.model = "usb-net" /\ ~raspi THEN {}
       ELSE IF IsPci(network.model) /\ raspi THEN {}
       ELSE IF network.mode = "user"
       THEN IF \A p \in ports : p >= o.hostfwdPortRange.low /\ p <= o.hostfwdPortRange.high
            THEN {<<[Props("-netdev", {"user", "127.0.0.1"}) EXCEPT !.numbers = ports], device>>}
            ELSE {}
       ELSE IF o.allowHostNet THEN {<<Props("-netdev", {network.mode}), device>>} ELSE {}

\* Mutation of AssertWithinResourceCaps: memory only.
AssertWithinResourceCapsMemory(spec, o) == spec.memoryMb <= o.maxMemoryMb
AssertWithinResourceCaps(spec, o) ==
    spec.memoryMb <= o.maxMemoryMb /\ spec.vcpus <= o.maxVcpus

\* Of the option that each part is, the option of their concatenation.
Joined(parts) ==
    IF \A i \in DOMAIN parts : parts[i] # {}
    THEN {FlattenSeq([i \in DOMAIN parts |-> CHOOSE args \in parts[i] : TRUE])} ELSE {}
\* The parts of a list, each built by Build.
Each(list, Build(_)) == [i \in DOMAIN list |-> Build(list[i])]
\* The part of an optional field.
IfGiven(option, Build(_)) == IF option = {} THEN {<<>>} ELSE Build(CHOOSE x \in option : TRUE)

\* What comes before the disks, and what after them.
BoardArgs(spec, o) ==
    LET raspi == IsRaspiMachine(spec.machine)
        Artifact(flag, option) ==
            IfGiven(option, LAMBDA name : ResolveBootArtifact(flag, name, o.imageStore))
        device == QemuDevice(spec.displayDevice)
    IN <<IF AssertWithinResourceCaps(spec, o) THEN {<<>>} ELSE {},
         {<<[Words("-machine", {EscapeQemuOptsValue(spec.machine)}) EXCEPT !.props = {o.accel}]>>},
         {When(~raspi, <<Words("-cpu", {spec.cpu}), Numbers("-smp", {spec.vcpus}),
                         Numbers("-m", {spec.memoryMb})>>)},
         Artifact("-kernel", spec.kernel),
         Artifact("-initrd", spec.initrd),
         Artifact("-dtb", spec.dtb),
         IfGiven(spec.appendCmdline, LAMBDA line : {<<Words("-append", {line})>>}),
         {<<Arg("-nodefaults"), Arg("-nographic"), Arg("-S")>>},
         {When(spec.display = "vnc", <<Props("-vnc", {"127.0.0.1", "password"})>>)},
         IF device # {} /\ raspi THEN {} ELSE {When(device # {}, <<Props("-device", device)>>)}>>
DeviceArgs(spec, o) ==
    <<IfGiven(spec.cdrom, LAMBDA iso : BuildCdromArgs(iso, o.isoStore)),
      IF spec.share THEN BuildShareArgs(o, IsRaspiMachine(spec.machine)) ELSE {<<>>},
      IF spec.serial THEN BuildSerialArgs(o, spec) ELSE {<<>>},
      IfGiven(spec.boot, LAMBDA b : {<<Words("-boot", {EscapeQemuOptsValue(b)})>>}),
      BuildNetworkArgs(spec.network, spec.machine, o),
      {<<Files("-qmp", {o.qmpSocketPath}, {"server"})>>},
      IF spec.extraArgs # <<>> /\ ~o.allowRawArgs THEN {}
      ELSE {[i \in DOMAIN spec.extraArgs |-> Words("raw", {spec.extraArgs[i]})]}>>

BuildArgv(spec, o) ==
    Joined(BoardArgs(spec, o)
           \o Each(spec.disks, LAMBDA disk : BuildDriveArgs(disk, o.imageStore))
           \o DeviceArgs(spec, o))
=============================================================================
