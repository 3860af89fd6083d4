# netconfig in TLA+

TLA+ modules, TLC configurations and TLAPS proofs for netconfig, a Go library that
changes the addresses, routes, resolvers and DHCP clients of a server's network
interfaces, both in the running system and in whatever configures it at boot.
Line numbers below are those of `src/`.

Contents: [the system](#the-system), [what is hard about it](#what-is-hard-about-it),
[modules](#modules), [runs](#runs), [fairness](#fairness), [proofs](#proofs),
[where code and documentation disagree](#where-code-and-documentation-disagree),
[not modelled](#not-modelled), [plan](#plan).

To repeat a run or a proof: `tlc -config MCNetplan.cfg MCNetplan`, `tlapm ServicesProofs.tla`.

## The system

A caller builds one `Configurator` and calls it. A call changes the running system
first; a call that could cut the host off is tested and rolled back; only then is the
result written to **every** backend found on the host and told to **every** control
panel. Backends and panels fail on their own: an error is logged and the next one is
tried. Nothing in the library takes a lock, so calls are expected one at a time; the
other actors are the kernel, the network managers' daemons, the panels, and the
process itself, which may die anywhere.

| Component | State it keeps | Operations | What makes it correct |
|---|---|---|---|
| Linux configurator (`configurator_linux.go`) | options, list of backends, list of panels; the interface itself is in the kernel | `AddAddress` 306, `SetPrimaryAddress` 570, `RemoveAddress` 760, `AddRoute` 910, `RemoveRoute` 996, `SetDNS` 1077, `SetDHCP` 1084, `GetInterfaces` 212 | a call happens as one step or not at all, and a failed one persists nothing; what is persisted is what runs; the primary address and the way to the gateway are protected |
| Shared helpers (`networkConfigurator.go`) | none | `applyIface*` 141-290, `mergeBackendState` 207, ranking of interfaces 373-433, `reorderPrimaryAddress` 322 | each backend is tried whatever the others do; one interface is picked, always the same one |
| netplan (`netplan.go`) | one `npConfig` per file, merged over the files in name order | read 257-414, `Save` 613, `SetIface*` 689-1036 | a restart reads back what memory holds; other interfaces and other files are untouched; a file is never lost |
| networkd (`networkd.go`) | one ini file per `.network` file with its drop-ins merged in | read 106-262, `Save` 458, `SetIface*` 514-660 | settings and sections the call is not about are kept; a file is never lost |
| ifupdown (`ifupdown.go`) | interfaces parsed out of `/etc/network/interfaces` and what it sources | `ReadFile` 154, `Write` 771, `Save` 872, `SetIface*` 1078-1217 | the lines of other interfaces are copied; what is written is read back; a request its one-method stanzas cannot express is refused, not halved |
| cloud-init (`cloudinit.go`) | one network merged from several files, of which one keeps the section | read 276, `Save` 745, `SetIface*` 853-1367 | a restart reads back what memory holds; no interface leaves the disk; a call changes what it is about, in both versions of the format |
| network-scripts (`networkScripts.go`) | one `ifcfg` file per interface and alias, a pair of route files | `Save` 636, `SaveRouteFiles` 696 | aliases merged into one file lose no address; route files follow the interface; a text taken away is in a backup |
| NetworkManager (`networkManager.go`) | profiles kept by the daemon | `connectionsFor` 382, `SetIface*` 644-901 | both families attempted, each failure reported; a leasing family stays leasing; profiles naming another interface are untouched |
| Replacing a file (`utils.go`) | `*.tmp.<ns>` and `*.bak.<ns>` beside each file | `fileMove`, `pruneBackups` | the previous text is always in the file or its newest backup |
| Control panels (`cpanel.go`, `plesk_linux.go`, `interworx.go`; `plesk_windows.go` is `plesk_linux.go` with another path) | the panel's own list of addresses, sites on them, main address | `removeIP`, `setMainIP`, `reload` | no site is left without an address; an address is released last; Plesk keeps a main address |
| Services (`services.go`, `services_linux.go`) | none | `waitForServiceReady` 34, init-system detection | the wait ends, ready or not; the daemon is given up only for a reason |
| DNS of the running system (`dns_linux.go`, `dns_windows.go`) | systemd-resolved or `/etc/resolv.conf`; the adapter | `applyLiveDNS` | one interface's servers leave the host's file alone; the file is replaced in one step |
| Windows configurator (`configurator_windows.go`) | none; the adapter, through winipcfg and netsh | as on Linux | as on Linux; an adapter that stops leasing keeps its address |

Interactions: configurator to kernel by netlink or winipcfg calls, each of which may fail;
to backends by `SetIface*`, whose errors are logged; to panels by commands, whose errors
are logged; backend to disk by write, rename, rename, unlink; backend to backend never,
although netplan and cloud-init may describe the same interface.

## What is hard about it

`PROJECT.json` lists the hazards at their lines. In short:

* **A rollback of several steps that may itself fail.** `AddAddress` has three netlink
  calls that change the interface, then a test, then up to three that undo; promotion
  deletes and re-adds a whole family and loses the default route on the way. On Windows
  one call flushes the adapter and adds its addresses one by one.
* **State captured before it changes and used after it.** The address list handed to the
  backends is built from a listing taken early in the call; the snapshot a rollback works
  from must not share memory with it; the routes to persist are listed before the deletion.
* **Partial failure.** One of several backends, files, renames, SQL statements, panel
  commands or netsh commands fails and the rest go on or stop.
* **Crash between two renames**, and a process that goes on after a failed one with a
  memory that has the change and a disk that has not.
* **Files that share an interface.** netplan merges keys across files, cloud-init whole
  sections, networkd drop-ins, network-scripts aliases; ifupdown lets an interface have
  several stanzas over several files: what is written back must not drop, double or revive
  a setting.
* **Order as meaning.** The first address of a family is the primary, in the kernel, in
  the lists and in every file.
* **A deadline, a cancellation and a late answer at once**, while the daemon waited for restarts.
* **A panel that knows another set of addresses than the kernel.**

## Modules

| Module | Models | Built on |
|---|---|---|
| `AddressBook` | what the three address calls promise their caller | - |
| `LinuxConfigurator` | the address calls of `configurator_linux.go`, one netlink call a step | instance of `AddressBook` |
| `LinuxConfiguratorProofs` | its theorems, among them that it implements `AddressBook` | `LinuxConfigurator`, TLAPS |
| `ConfiguratorRoutes` | `AddRoute`, `RemoveRoute` and `SetDNS` of both systems | - |
| `WindowsConfigurator` | the address calls and `SetDHCP` of `configurator_windows.go` | - |
| `WindowsConfiguratorProofs` | its theorems | `WindowsConfigurator`, TLAPS |
| `ConfigFiles` | temporary file, backup, rename, pruning (`utils.go`) | - |
| `Netplan` | `netplan.go` over a directory | `ConfigFiles` |
| `NetplanProofs` | its theorems | `Netplan`, TLAPS |
| `Networkd` | `networkd.go` over a directory | `ConfigFiles` |
| `NetworkdProofs` | its theorems | `Networkd`, TLAPS |
| `IfUpDown` | `ifupdown.go` over the main file and those it sources | `ConfigFiles` |
| `IfUpDownProofs` | its theorems | `IfUpDown`, TLAPS |
| `CloudInit` | `cloudinit.go` over the base file and the drop-ins | `ConfigFiles` |
| `CloudInitProofs` | its theorems | `CloudInit`, TLAPS |
| `NetworkScripts` | `networkScripts.go` over interface and route files | `ConfigFiles` |
| `NetworkScriptsProofs` | its theorems | `NetworkScripts`, TLAPS |
| `NetworkManager` | `networkManager.go` with the daemon's profiles and devices, and `SetDHCP` and `SetDNS` around it | - |
| `Readiness` | `newNetworkManager` and `waitForServiceReady` | - |
| `Panels` | the three Linux panels, one command a step | - |
| `ServicesProofs` | the theorems about what is told what to do, where the other backends write files | `NetworkManager`, `Readiness`, `ConfiguratorRoutes`, `Panels`, TLAPS |
| `MC*` | constants for TLC | the module named after it |

Every module that models code has the same outline: constants and their assumption,
variables, operators on the data, one action per operation or step of one, `Init`, `Next`,
`Spec`, the properties. `Readiness`, `ConfiguratorRoutes` and `Panels` have names of their own for
what the other modules call `Init`, `Next`, `pc` or `pre` (`WaitInit`, `RoutesNext`, `at` and
`began`, `PanelsSpec`, `step`), as their theorems share a module with another's. `IfUpDown` ends with a statement of the documentation the code does
not live up to. Types are stated as an invariant where a proof rests on them
(`LinuxConfigurator`, `NetworkManager`, `Panels`). A definition whose comment begins with
"Mutant:" is not part of the specification: it is the definition below it with a mistake in
it, and shows that a property would notice the mistake. `PROJECT.json` maps every definition
to the lines it translates.

### LinuxConfigurator and AddressBook

One interface. `up`, `addrs` (an ordered list per family) and `gw` (default route per
family) are the kernel; `disk` is what each backend has persisted and `panel` what each
panel believes. A call is a walk of `pc` over labels with `req` for the arguments and `l`
for the local variables. Each step is one netlink call with the Go code up to the next
one; beside its success stands the alternative in which it fails and the function returns
(`Fails`). `Return` goes through `linkDown` where the deferred `LinkSetDown` of
`AddAddress` is armed. `Refuse` is every guard that says no and every initial read that
fails. `pre` is the world when the call began, kept for the properties.

Assumed of the kernel: replacing an address the interface holds changes its prefix in
place; a new IPv6 address is listed first (`NewestFirst`), a new IPv4 one somewhere behind
the first (`Places`), since the first address of each network comes before the secondary
ones. The tests show it for IPv6: once `AddAddress` of `...:1:5` at
`configurator_linux_test.go:379` has returned, `tests/configurator_linux/results/interfaces/2.expected`
lists `...:1:5` before `...:1:3`, where `results/1/50-cloud-init.yaml`, written from the code's own
list, has it last. Taking an address off keeps the order of the others (that a secondary
address promoted in its network may change place behind the first one is left out).
Deleting an address may drop a default route whose gateway no remaining address reaches; a
route to a gateway nothing reaches is rejected; `promote_secondaries` is set; one default route per family; taking
the link down drops the routes. The reachability test is a free choice of the two
answers: that over-approximates any network. `HostAssumption` says of the interfaces a
history starts from what any kernel shows (`Sound`): addresses and gateways are under their
own family, an address is there once, and no route is over a link that is down.

Folded: link-local addresses are kept out of the lists, as the code keeps them out, and
count only as the option field `ll` where `RemoveAddress` looks for another way to the
gateway; what a backend or panel does inside is its own module, here it is written or not.

`AddressBook` is the interface as a caller sees it, its lists and gateways, with the last
call and its answer. A call is one step (`Add`, `Promote`, `Release`), or refused, or undone
(`Undo`), or torn (`Tear`: a netlink call failed or the process died, and the family of the
address has some of the addresses it had and perhaps the one asked for). `LinuxConfigurator` is mapped onto it by
letting the interface be the one the call found until the call returns; the property is
`CallsAreAtomic`. Where the kernel puts a new address is in the book too, since a caller sees
it: an address that enters a list is the first or behind the first (`Entered`), and a family
taken off and written again begins with the address written first, or in a family that lists the
newest first ends with it (`Rewritten`). So `Promote` and the `Undo` of it say which address
is the primary of an IPv4 family and which is the last of an IPv6 one, and the `Undo` of a
removal that its address is back as a new one. `CallsAreAtomic` contains what a rollback
restores, what a removal may do to the way to the gateway, and that the other family is left alone, each in relation to what was asked for.

### ConfiguratorRoutes

One interface of a host of either system (`os`). `routes` and `addrs` are the kernel's,
`disk` what each backend has persisted, `at` the step of the call; `link` and `resolv` are the servers of
systemd-resolved (or the adapter) and of `/etc/resolv.conf`. `AddRoute` adds and then lists;
`RemoveRoute` lists and then deletes match after match on Linux, deletes and then lists on
Windows; each writes the list without default routes and routes to the interface's own
networks to one backend after the other. `SetDNS` tries `resolvectl dns`, then `resolvectl
domain` whatever became of the first, and the file if one failed; on Windows it sets one
family after the other. Addresses arrive and leave between any two steps, with their
connected routes (`AddressArrives`, `AddressLeaves`).

Assumed of the kernels: Linux has one route per destination and metric and rejects one whose
gateway no address reaches; Windows has one per destination and gateway, and keeps the routes
by a gateway when an address leaves. Windows has cloud-init for its one backend;
a sequence of any length stands for it too. That `ipAdapterAddresses` leaves out networks of
a single address is in `WindowsConfigurator`.

### WindowsConfigurator

`addrs`, `gw`, `dhcp` are the adapter, which is configuration and running system in one;
`disk` is cloud-init's. `SetIPAddresses` flushes and adds, so a failure leaves any
part of the list (`SetIPAddressesFails`). `Listed` is what `ipAdapterAddresses` makes of the
adapter: an address gets the mask of the first network of the adapter that has it, its own
or another's, in whichever order Windows shows them, and networks of one address do not count. `SetDHCP` switches one family after the other by netsh commands, the
first of which replaces the whole IPv4 configuration; each error is kept to the end. The
lease may be granted, change or run out meanwhile (`LeaseChanges`). Left out: the link-local
filter of `ipv4AdapterAddresses` and panels, which are told as on Linux.

### ConfigFiles, Netplan, Networkd, IfUpDown

`disk`, `tmp` and `bak` are the file system, `configs`, `networks` or `ifs` the memory of
the process, `pc` the place in `Save`. Each system call is a step and may fail (`Fault`);
`Exit` is the death of the process anywhere, `new...` the next one reading the directory.
Only process death is modelled: the library never calls fsync, and what a power loss
leaves of a rename is up to the file system. `fileMove`'s copy across file systems is
taken as a rename, which holds while the backups stay beside the files. A `.tmp` file
left behind is never read.

*Netplan*: a file is a function from keys to stanzas, plus a flag for sections the library
does not know. Reading merges each stanza into the first file that has the key
(`mergo.Merge`: the first value wins, false or absent counts as empty) and marks both
files dirty; a file left without stanzas that way is removed by the next `Save`. A failed
`Save` leaves the change in memory, and the next successful one writes it.

*Networkd*: a file is a list of sections in order, as go-ini keeps them. Calls edit the
first `[Network]` section, so the statement about what a call does is about files that
have one; `Values` is what go-ini gives for a key of one section, `Said` for a key of all of
them, and `DHCP=` is a key of `[Network]` sections only; a directory with a file without one cannot be read at all.

*IfUpDown*: a file is a list of items, namely stanzas, `auto` lines and `source` lines.
A stanza has one list of address lines and one of `up ip addr add` lines; reading appends
the address lines but the last, then the `up` lines, then the last. `Write` replaces the
stanzas where the first one was found and copies the other lines. Errors of `Fprintf` are
ignored by the code, so a short write goes unnoticed and `faulted` records it. `Together`, the
precondition of `OthersKept`, says when the copy loses nothing: the loop forgets where it is as
soon as its stanza has been written, and from the next stanza of the interface on drops every
line but the `auto` ones. Any line that ends the stanzas of an interface before its last does that:
a stanza of another interface, or an `auto` line that names it, as in `auto eth0` before its
`inet6` stanza; a layout of the instance has one.

### CloudInit

A file has a network section or none (`Absent`), and other contents or none. A network is
its two halves: `v1`, lists of subnets per interface where a DHCP client is a subnet of its
own type, and `v2`, a stanza per key. Reading takes the first base file there is and the
drop-ins by name (`Used`) and merges them as `mergo` does: a v1 list is kept whole, v2 stanzas
are filled key by key. `Effective` is the network that comes of it, `ReadFiles` the files with
a section, each a function of the files read so far. `Save` walks the files that had a section, gives the main one (the first
with nothing but a network, or else the first) all of it and takes it from the others; for
each file it reads, writes, renames twice and prunes. Lists of servers and routes are sets,
since their order says nothing.

`SectionsSurvive` is about the entries of the first network (`Kept`), the interfaces of its
lists and its stanzas, with the two provisos the code needs: no stanza is promised to survive
in an encapsulated file, and no list where two base files have been there. `Rebuilt` is how the v1 subnets are made from addresses, with
each route beside the address that reaches its gateway.

### NetworkScripts

`ifFiles` is, per interface, its `ifcfg` files with the keys and values read from them, and
`routeFiles` its two route files. A call merges the interface's files, the first value of a
key winning, writes the new text beside `ifcfg-<name>`, renames **all** the old files to
backups one by one, and the new one into place; only then is the list replaced. Numbered keys
(`AddressKey`, `ServerKey`) are sequences of any length; `Numbered` is how they are read: of the
addresses IPADDR, IPADDR0 and IPADDR1 may be missing, the first key missing after them ends the
list, as any missing one ends the servers'. Routes are
written for both families, both old files renamed, then both new ones. A later call of the
process that looks for a file an earlier one moved away gets an error (`Missing`). Errors of
`Fprintf` go unnoticed as in `IfUpDown`. Assumed: `ifcfg-<name>` is not the file of another
device, which the call would overwrite. Left out: `renewDHCP` with ifdown and ifup, devices
found by hardware address, route files in the netmask format.

### NetworkManager

`profile` is what the daemon has stored: per profile and family a record of the method,
the addresses, the gateway, the routes, the servers and whether servers of a lease are
ignored. `con`, `activated` and `runs` are its devices: the profile active on each, whether
the activation has come to its end, and the settings the device runs, which are those of
the profile when it was last activated or reapplied. A call reads `targets`, the profiles
`connectionsFor` returns, goes through them with one `nmcli connection modify` per family
(`ModifyIPv4`, `ModifyIPv6`), may look at the device (`DeviceActivated`) and reapply it,
answers (`heard`), and `Return` is the configurator's use of the answer (`ret`): `SetDHCP`
needs one backend to accept, this or another, and renews only to start a client.

Assumed of the daemon, which is not in the repository: `modify` stores exactly what it is
given or fails; `reapply` has the device run its profile as stored or fails; devices are
activated and lost without being asked, at any moment (`Activate`, `Activated`,
`Deactivate`); nothing else writes profiles during a call; a profile is active on one
device at most, and only on one it suits. What the daemon accepts as a profile is `Served`.

Left out: profiles without an id, two profiles with one id, the older forms of address
lists, and `GetInterfaces`. The wait for the daemon is `Readiness`.

### Readiness

`bus` and `daemon` are the host's, `elapsed`, `tick` and `cancelled` what the three channels
of the `select` hold. A probe is two calls over the bus: is the name owned (`Owned`), and has
the daemon finished starting (`Startup`), which over D-Bus would start a daemon that has gone
in between. `ProbeAgain` and `GiveUp` are the cases of the `select`, which may both be ready.
After a wait that failed, `Recheck` asks for the name once more, and the daemon is configured if
it has one. The daemon starts, settles and stops at will, `MaxStops` times at most, or never
settles. A call over the bus is taken to return: the code gives it no context, so the timeout
does not bound a daemon that holds its answer back.

### Panels

`bound` is what the kernel holds, `listed` what the panel lists, `sites` the addresses
each site is on, `shared`, `main` and `conf` the panel's own idea of its main address. A
removal lists the affected sites, moves each, releases the address and reloads, in the
order each panel's code has; a command a step, any of which may fail. cPanel's answer to
`setsiteip` is logged without a look at its result: `MoveRefused` is that answer.

## Runs

Each passing run checks all properties of its module together, since they are answers
about the same behaviours. Every property has a mutated definition that breaks it.

| Run | Distinct states | What it shows |
|---|---|---|
| `configurator` | 961,381 | two address calls in a row with any failure or death, IPv6 addresses listed newest first: the whole implements `AddressBook`; failures persist nothing, backends get the addresses and gateways that run, with the IPv4 primary first, the primary survives but for an IPv6 one put back, the link goes back down, panels follow the kernel, calls return |
| `routes` | 2,618,636 | two calls of `AddRoute`, `RemoveRoute`, `SetDNS` on either system while an address comes or goes: each backend gets the kernel's lasting routes or has failed, an error has written nothing, the host's `resolv.conf` is rewritten only where it may be |
| `windows` | 1,170,997 | two calls on an adapter, some networks inside others: an address call is all or nothing, and an adapter that stops leasing is never without the address it is reachable on |
| `netplan` | 300,952 | two calls with failures, deaths and restarts: what is read back, what is at risk, what is untouched, no error caused by an earlier success |
| `networkd` | 234,834 | the same over sections: every setting a call is not about is kept, at most one file is ever away |
| `ifupdown` | 2,473,311 | copied lines, what a restart reads back, DHCP requests done whole or refused, backups |
| `cloudinit` | 1,146,984 | what is read back once the sections are in one file, which interfaces can leave the disk on the way, what a call does to either version of the format |
| `networkscripts` | 577,131 | aliases merged and route files of both families replaced: every text taken away is the newest backup, no error caused by an earlier success, what was asked for is read back |
| `networkmanager` | 1,799,123 | two calls on cards and a VLAN, any command failing, the daemon acting by itself: profiles always serve their addresses, each part is done or reported, other interfaces' profiles are untouched, a lease is left alone |
| `readiness` | 3,550 | one start against a bus, a daemon, a clock and a caller that go their own way: which answer may be given when, and that one is given |
| `panels` | 222,258 | three address events on eleven hosts: no site without an address, the right ones moved, released last, Plesk never without a main row |

`ifupdown_primary` exhibits the one disagreement a run shows, [below](#where-code-and-documentation-disagree).

Bounds, and why they suffice:

* *Calls* (`MaxCalls`; `MaxBegun` for routes, `MaxNotices` for panels): two, three for the panels, one start for `Readiness`. The state that
  crosses a call is the kernel, the disk, and the memory of a backend; two calls are enough for
  the second to meet every state the first can leave, failed, half done or crashed.
* *Addresses*: three of each family in the Linux configurator, since the families order theirs
  in opposite ways and a family needs a first, a middle and a last for order to matter; on Windows,
  which keeps the order it is given, three IPv4 and one IPv6 address. Two prefix
  lengths, one of which reaches the gateway (on Windows a wide one, one inside it and that of a
  single address), two IPv4 gateways in different networks and a link-local IPv6 one.
* *Starting interfaces*: link down with three IPv4 addresses, the last of which alone reaches
  the second gateway, once a call has set it; an IPv4 and three IPv6 addresses with both
  gateways. A second IPv4 address beside IPv6 ones, and a family without addresses where there
  were some, come about by the first call. On Windows: leasing and empty;
  leasing with two IPv4 addresses, an IPv6 one and both gateways; static with a network inside
  another's and an IPv6 address that no network covers; static with an address inside
  another's network and one that no network covers.
* *Routes*: an interface with up to two addresses in two networks and a gateway in the
  first, so that the route to the second network is a static one until its address arrives;
  one destination routed twice with two metrics; a default route. Two backends: one may fail
  before or after the other has succeeded. `MaxShifts` 1: one address that arrives or leaves
  falls between any two steps.
* *Files*: three for netplan (a key in two of three), four for networkd (two of one
  interface, one of another, one that names none), two for ifupdown, a base file, an encapsulated
  one and two drop-ins for cloud-init, two interfaces with an alias and all route files for
  network-scripts. Layouts are listed in the `MC` modules: shared keys, a file that becomes
  empty, unknown sections, a duplicate set-name, drop-ins, stanzas apart, sourced stanzas,
  two base files, an encapsulated file without a network to start from, DHCP beside static, clients in several spellings, an alias that shares a key, an alias sorted
  before its interface, an alias that continues the numbers of its interface. Calls of
  network-scripts have up to four IPv4 addresses and three servers, one more than may be
  missing before a list ends.
* *Profiles*: four, one for each way of being found or missed: named, named but pinned to
  another card, pinned without a name, neither. Two cards and a VLAN that shares the hardware
  address of the second; histories start with profiles active, activating, or with a card
  that has none. `MaxChanges` 1: the properties that depend on the device compare one look
  at it with one change after or before it.
* *The daemon's restarts* (`MaxStops`) 2: one inside a probe, and one after a failed wait.
  *Leases* (`MaxLeases`) 1: the property is about calls during which the lease does not change,
  and one change before the call gives every adapter.
* *Retention* 1, the smallest that keeps a backup and so the one where pruning too much
  would lose the text.
* *Backends* 2 and *panels* 1 in the configurator: the second backend follows the failure
  of the first; panels do not interact.
* *Options*: the default, and everything that removes a guard.

`CHECK_DEADLOCK FALSE` everywhere because a history ends when its calls are used up.

## Fairness

Two modules state a liveness property.

`LinuxConfigurator`: `CallsReturn` under `WF_vars(Step)`: a call that has begun keeps
executing, since it is straight Go code whose netlink calls answer or fail. Neither new calls
nor the crash are under fairness. The reachability test may answer no for ever, and the
property says that a rollback is not put to the test again.

`Readiness`: `WaitEnds` under `WF_waitVars(WaitStep)`, for the same reason;
`WF_waitVars(Elapse)`, since time passes; and `SF_waitVars(GiveUp)`: when tick and deadline are both ready, Go's `select`
chooses uniformly at random, so that a case that is ready time and again is taken. It needs
the strong form because the probe between two looks disables it. The daemon, the bus and
the caller are under no fairness: the daemon may never settle, may be restarted, and nobody
need cancel.

## Proofs

Proved for every value of the constants, from the assumptions the modules state
(`ConfiguratorAssumption`, `HostAssumption`, `RoutesAssumption`, `WindowsAssumption`,
`PanelsAssumption`, `FilesAssumption`, `NetplanAssumption`, `NetworkdAssumption`,
`IfUpDownAssumption`, `ScriptsAssumption`, `KeysAssumption`, `ArgumentsAssumption`, `CloudInitAssumption`, `NMAssumption`,
`ReadinessAssumption`), all of them evaluated by TLC on the instances. Those
that are about more than types: an interface or adapter has an address once, as every kernel
sees to (`HostAssumption`, `WindowsAssumption`); the walk over a directory comes to each file
in one place (`NetplanAssumption`, `NetworkdAssumption`, `ScriptsAssumption`,
`CloudInitAssumption`); a call for addresses has one gateway of a family at most, as its two
arguments are (`CloudInitAssumption`); no route file
is of two interfaces or families (`ScriptsAssumption`); a numbered key stands for one thing
(`KeysAssumption`); a call has no more IPv4 addresses and servers than there are keys for
(`ArgumentsAssumption`: keys of addresses go up to IPADDR255, so a call may have 256, and there is no last DNS key); a file that is absent and a value
that is not set are no texts and no values (`IfUpDownAssumption` among others).

| Module | Theorem | Property | Argument |
|---|---|---|---|
| `LinuxConfiguratorProofs` | `TypeCorrect` | `TypeOK` | `TypeInv` adds that the list `RemoveAddress` restores from has its one element wherever it may be needed (`remove`, `testRemove`, `putBack`): without it `l.orig[1]` has no type |
| | `FailureIsSilent` | `FailurePersistsNothing` | `FailInv`: a call in progress has result "running", and anywhere but at `persist` (and at rest) the stores are as in `pre`; the steps up to there change neither store, and `persist` leads to "ok" or a crash only |
| | `LinkIsPutBack` | `LinkReturnedDown` | `RaisedInv`: a call that did not raise the link has it as in `pre`; one that did returns through `linkDown` |
| | `CallsImplementBook` | `CallsAreAtomic` | `BookInv`, see below: a step that returns is a step of `AddressBook` (`StepsAreBooked`), any other is a stutter, as the caller sees `pre` until then |
| | `PrimaryIsProtected` | `PrimaryProtected` | `BookInv` at "ok", "refused" and "aborted": the list is `pre`'s without the address, or `pre`'s, or has the address as a new one, behind the first (IPv4) or first (IPv6); the guard has kept `pre`'s first one out of it |
| | `PersistedIsRuntime` | `PersistOnlyRuntime` | `BookInv` at `persist`: what was captured for the backends has the addresses the kernel has now (`Handed`, `Listed`, `l.list = addrs`), and an IPv4 family written again begins with the one that was promoted (`Arranged`) |
| | `PanelsAreTold` | `PanelsFollowRuntime` | `BookInv` at `release` and `persist`: the address is there or gone, as the call has it, and a promoted IPv4 one is first (`Arranged`) |
| `ServicesProofs` (`ConfiguratorRoutes`) | `RoutesReachBackends` | `RoutesPersisted` | `RoutesInv`: while no address comes or goes, the routes to be persisted are the kernel's lasting ones but those still to be deleted; each backend the loop has passed has them or has failed, the others are as they were (`Passed`), which is kept because no backend is there twice |
| | `ResolverIsKept` | `ResolverKept` | `ResolverInv`: at each step of `SetDNS`, what it has set or failed to set, and that the file is untouched |
| `ServicesProofs` (`Panels`) | `PanelsTypeCorrect` | `PanelsTypeOK` | inductive as it stands |
| | `SitesKeepAnAddress` | `SitesStayReachable` | `SitesInv`: a site that has changed lost the address only, gained at most the target, which is known, of the same family and another address, and without a target there was none to be had |
| | `OthersAreLeftAlone` | `OnlyAffectedMove` | the same invariant |
| | `ReleasedLast` | `ReleasedWhenEmpty` | `ReleaseInv`: a site no longer to be moved is off the address, or was refused, or the panel did not list the address |
| | `MainThroughout` | `AlwaysAMain` | `MainInv`: at `demote` the promoted address has a main row if it is listed |
| `NetworkdProofs` | `AtMostOneAway` | `OneFileAtRisk` | `RiskInv`: the files a call has not come to are as they were, none is away before `install`, and at `install` only the one in hand, whose newest backup is its text; the order of the files is injective, so two positions are two files |
| | `FilesSayWhatWasAsked` | `CallDoesItsPart` | `NetworkdInv`: of the files the walk has passed, those of the interface are in place with the text the call makes of them (`PassedInv`); those ahead are in memory as the call found them; the text in hand is in memory at `write`, beside the file up to `install`, in its place at `prune` (`SavingInv`). What that text says is a statement about edits (`EditedFacts`), shown section by section |
| `NetplanProofs` | `WhatIsSavedIsRead` | `SavedIsRead` | `NetplanInv`: memory is a reading of the directory but for the stanzas of configurations still to be saved and the files already written (`Held`, `Progress`), and at the end of a call nothing is left between them; what reading makes of a key is the first value that is not empty (`IsValue`), which the merge keeps as the key moves to its first file |
| | `OneNetplanFileAway` | `OneFileAtRisk` | `PlaceInv`: only the file in hand is away, and only at `install`; `ChangedInv`: a removed file is its newest backup |
| | `OtherStanzasKept` | `OthersKept` | `CarriedInv`: the call's configurations agree with those it began with on the stanzas of other interfaces, so the two readings do |
| | `OtherFilesKept` | `UntouchedFilesKept` | `ChangedInv`: a file that has changed belonged to a configuration that was dirty or targeted |
| | `ErrorsHaveFaults` | `NoSpuriousError` | `FaultlessInv`: without a fault a dirty configuration is one that shared a key, and each file still to be renamed is there |
| `NetworkScriptsProofs` | `NoFileIsLost` | `NothingIsLost` | `ScriptsInv`: a file a call has come to is away, with its text in the newest backup (`Moved`), or has its new text and the old one is in the newest backup; the others are as they were (`Same`). So the rename into place falls on a file that was moved away or had not been there, and no backup is overwritten by a second move, because an interface has each of its files once (`Listed`) |
| | `NoFileIsMissed` | `NoSpuriousError` | the same invariant: between calls that have not failed, memory has exactly the files of the interface that are on disk (`Known`), which reading a directory establishes (`ReadKnown`) and `Install` and `InstallRoutes` restore; so a file that is still to be renamed is there |
| | `CallReadsBack` | `ReadsBackAsAsked` | `ReadsBackInv`, beside `ScriptsInv`: without a failure memory is what the directory reads as, between calls and as the call found it (`Read`), the new texts are beside their files until they are in place, and what is to be saved is the argument put into the merged files (`AskedInv`). So at the last rename the directory reads as the old one with one interface changed (`InstalledWorld`, `InstalledRoutesRead`), and it is left to show that files that share no key and are `InOrder` say together what they said one after the other (`ViewMerged`, from `FlatGlued`: lists in two parts may be put together part by part, and `JoinPart`: each numbered key is read of the part that has it), that any number of addresses and servers put under numbered keys are read back (`NumberedGives`), and that each call changes its part of that and no other (`AddressView`, `DHCPView`, `DNSView`, `RoutesView`) |
| `IfUpDownProofs` | `NoFileIsLost` | `NothingIsLost` | `PlaceInv`: a file the walk has passed is in place, with its old text in the newest backup; the one in hand is away at `install`, backed up; the others are as they were. An interface has each of its files once (`Listed`), so no file is backed up twice |
| | `OtherLinesAreKept` | `OthersKept` | `ContentInv`: what is written, or to be renamed, has the lines of others of the old text, in order (`Saved`). `CopyOK` says that of the copy after each line: which lines it has passed, whether it is among the stanzas, and that none is to come once the stanza is written; only the last needs `Together` |
| | `SavedIsReadBack` | `ReadsBackAsHeld` | `Held`: between calls, every file that is read and mentions an interface is among its files in memory. So at the end of a call the main file has the one stanza (`Once`) and no sourced file has any, and a reading makes of that stanza what it was written from (`RereadOnce`). A mode that says dhcp has the dhcp flag set (`Agrees`), so what is read of the flag is held; a call that saves with the flag set saves a dhcp stanza, unless it turned DHCP off (`LeaseAsked`) |
| | `LeaseIsAsAsked` | `DHCPAsAsked` | `LeaseAsked`: an accepted request leaves the mode it asked for; any stanza read back, in whichever file, has that mode, and there is one (`RereadMode`); the flag left set by turning DHCP off (`LeaseAsked`) is not written |
| `CloudInitProofs` | `SectionsAreKept` | `SectionsSurvive` | `KeptInv`, see below: each entry that is kept is `Safe`; for the second half `PlaceInv`: every file `Save` has passed has its new section, the one in hand is away at `install`, the others are as the call found them, and a first file that is network-only is the main one |
| | `SavedNetworkIsRead` | `SavedIsRead` | `ControlInv`: the process knows every file with a section but base files behind one it has or one that is there (`Known`). So when the walk is over, the main file has the only section a new process uses, and one section is read as it stands (`OneSectionIsRead`) |
| | `CallIsDone` | `CallDoesItsPart` | `CallDone` while `Save` runs, as it leaves memory alone; that each call establishes it is a lemma about lists of subnets, the static ones among them (`StaticIsStatic`, `StaticBehind`), and where each route is put; a list made anew from addresses has static ones only (`RebuiltFacts`) |
| `WindowsConfiguratorProofs` | `AddressCallsAreAtomic` | `AllOrNothing` | `AddressInv`: the list and gateway a call carries at each label follow from what it read (`CarriedInv`); the adapter has the list it came with before `set` and `restoreRoute`, the new one between (`ListInv`); the gateway likewise, and what the call has added there was no gateway before (`GatewayInv`) |
| | `AddressStaysReachable` | `LeaseIsKept` | `DHCPInv`: while no lease is taken, the adapter is untouched up to `static`; from there on the addresses it has, followed by those still to be added in `secondaries`, are the ones it had, and none of the latter is there already, so none is refused as a duplicate (`RestInv`) |
| `ServicesProofs` (`NetworkManager`) | `TypeCorrect`, `AlwaysServed` | `TypeOK` (in no run), `AddressesAreServed` | `ServedInv`, the two together: a profile of the right type is served before a change and hence after it (`ModifiedServed`), whichever of the four changes it is |
| | `PartsAccounted` | `PartsDoneOrReported` | `PartsInv`: what has changed is a target's and done (`ChangedIsDone`); what the loop has not come to is as it was, and what it has passed is done unless a command failed (`LoopInv`); the answer tells which (`AnswerInv`) |
| | `OwnProfiles` | `OnlyItsOwnProfiles` | `TargetsInv`: an active profile suits its device, so what `connectionsFor` returns may be changed; `PartsInv` says that nothing else is |
| | `LeaseKept` | `LeaseIsLeft` | `LeaseInv`: while nothing happens unasked, such a call is never about to reapply or renew |
| `ServicesProofs` (`Readiness`) | `ReadinessPromised` | `BackendAsPromised` | `WaitInv`: each promise is kept by what holds on the way to it; at `recheck` the wait has run out and nobody had cancelled, and a daemon that is away at `startup` slipped away inside the probe |

*The invariant of the refinement.* `CallsAreAtomic` speaks of the ends of calls only, and says
nothing about the half-written interface in between, so it is not inductive; neither are the
three other properties, which compare two moments of a call. `BookInv` says what the
interface is at each label. `World` holds at all of them: the family of the address has
only addresses it had and the one asked for, the other family is as the call found it, no
address is there twice and there is no route over a link that is down. `CallInv` has a
conjunct for each stretch of a call: at `Adding`, `Promoting` and `Removing` it gives the
list and the gateway in terms of `pre`, the request and the loop variable (during a promotion:
the first `l.i - 1` addresses of the order are those in the list, the one written first at the
end where the family lists what is oldest, `Arranged`, and the rest are to come); `Leaving` and
`Done` give them when nothing but panels and backends is left to write, `Achieved` and
`Undone` when the call has returned. The step lemmas go label by label, and a step inside a
stretch is a lemma about lists (`ReplacedFacts`, `ReorderedFacts`, `WithoutFacts`,
`ArrangedGrows`) and one about the kernel call; `EntersAsBooked` and `RewrittenAsBooked` say that
the lists there may be at the end are those of the book. Two facts of the code carry it: an address is in
its list once, so that replacing it and finding its place are the same, and a rollback goes
over the list the call began with. `HostAssumption` is needed for both.

*Where a section is.* `SectionsSurvive` says that an entry is in some file or backup; that does
not survive a step, as a rename may replace that file and pruning remove that backup. `Safe` says
which: either the entry is in a backup of a file that is no longer one of the process's and has
no section (`Retired`), and nothing touches that again; or it is in memory and besides in a
section a new process would read (`OnDisk`), or in a backup of a file of the process that has
no section now, which is no older than the Saves that have failed (`Away`). A file renamed away
takes its entries from `OnDisk` to `Away`, a failure makes the backup one older, pruning keeps
it as long as there were fewer failures than backups kept, the rename of the main file into
place brings everything back, and a death turns `Away` into `Retired`. That a list in another
file is still read when one file's section goes is what takes one base file in use
(`OthersStay`): with two, the second comes to light, which is how the proviso was found.

*Data of any size.* A file has any number of sections, a directory any number of files, an
interface any number of addresses, so what reading or editing makes of them is by induction,
and the induction theorems of the library take an operator, which the provers cannot
instantiate. The proofs use sets instead: the numbers at which a statement fails are a subset
of `Nat`, and if there are any there is a least (`WFMin` with `NatLessThanWellFounded`);
`Induction` in `IfUpDownProofs`, `NetplanProofs`, `NetworkScriptsProofs`, `CloudInitProofs` and
`WindowsConfiguratorProofs` and `SequenceInduction` in `NetworkdProofs` say this once. What is computed step by step is a recursive function of the
length of the prefix (`ReadUpTo`, `KeptUpTo`, `PickedUpTo`, `IfFilesUpTo`,
`CopiedUpTo`, `EffectiveUpTo`, `StaticUpTo`, `FlattenSeq`), and a lemma per
function shows that it satisfies its own equation, which a `CHOOSE` alone does not say; in
`IfUpDownProofs` and `CloudInitProofs` `Recursion` shows it for any sequence of steps, and `Invariance` carries a
statement from one prefix to the next. `Keeps` and `MainKeeps` are such statements about reading:
what the files say of an interface from one line to another stays in a given set.

Apart from `PanelsTypeOK` and `TypeOK` of `NetworkManager` none of these is inductive alone:
each speaks of the end of a call or of one step, or needs the types, and the strengthening
says what holds at each label on the way there. TLC checks each strengthening on the
instance of its module without an error.

Only model-checked:

* `CallsReturn`, `WaitEnds`: liveness under fairness is outside the prover. They are the only
  properties of the passing runs without a theorem.

## Where code and documentation disagree

Shown by a run, whose counterexample `PROJECT.json` explains:

* `PrimaryStays`: an ifupdown interface with two IPv4 addresses is read back in another
  order than it was written, so a later change of its routes or servers makes the second
  address the primary.

Built into the models, where a property makes an exception for it:

* `SetPrimaryAddress` writes the prefix length of its argument to the backends
  (`configurator_linux.go:661`, `networkConfigurator.go:340`); on Linux the interface keeps its
  own, on Windows it gets the argument's, too.
* `SetPrimaryAddress` makes "the chosen IP first within its family, both in the running kernel
  and in the written configuration" (README.md:266-268). For IPv6 the kernel lists newest first
  what `reapply` writes in the order asked for (`configurator_linux.go:699-703`), so the
  chosen address ends as the last one, and the backends and panels are then told that it is the
  first and the main one. Its rollback, which is to restore "the original order" (735),
  ends with the former primary last in the same way.
* A removal that fails the reachability test puts the address back as a new one
  (`configurator_linux.go:891`): an IPv4 primary comes back behind another one, which is the primary
  now, and an IPv6 address comes back first and is the primary now, even without
  `WithAllowPrimaryRemoval`; README.md:276 has the previous state restored, and README.md:265
  has the order as part of it.
* `AddAddress` of a second IPv6 address hands the backends a list with the new address last
  (`configurator_linux.go:403`) where the kernel lists it first, so the primary (README.md:265)
  is one address before a reboot and may be another after it.
* `AddAddress` with the zero gateway removes the default route and persists that without the
  reachability test (`configurator_linux.go:470`; README.md:276).
* Merging the `ifcfg` files of an interface keeps the order of its addresses and servers only
  if the files are sorted as their numbers are: with `IPADDR1` in the first file and `IPADDR`
  in the second, `SetDNS` and `SetDHCP` make the second address the primary
  (`networkScripts.go:886` and 950, read back in the order of 574).
* A networkd file with a drop-in can never be saved, because the drop-in is renamed in
  the wrong directory (`networkd.go:502` against 482).
* Promoting an address Plesk does not list demotes every row (`plesk_linux.go:236-245`);
  `AlwaysAMain` speaks of the addresses it lists.
* The answer of cPanel to a move is logged without a look at its result (`cpanel.go:107-112`),
  so an address is released with an account still on it where cPanel refused;
  `ReleasedWhenEmpty` exempts that address.
* `AddAddress` "never changes DHCP state" (README.md:129), but the cloud-init backend makes the
  v1 subnets of the interface anew from its addresses, and the DHCP subnets go
  (`cloudinit.go:947`). `CallDoesItsPart` says so: after a call for addresses v1 has no client.
* On an ifupdown interface with an `inet dhcp` stanza and an `inet6 static` one behind it,
  `SetIfaceDHCP` without a client leaves `isDHCP` set (`ifupdown.go:120-127` looks at the last
  stanza's method), while what it saves has no client. The process goes on refusing addresses,
  routes and servers of the interface, where a new one would take them; README.md:125-129 says
  that `DHCP4` and `DHCP6` report the state back. `ReadsBackAsHeld` exempts the flag after such a call.
* `RemoveRoute` exempts the default route from its guard because it "could never be removed
  through this API at all" otherwise (`configurator_linux.go:1010-1014`), and then skips every
  default route (1034-1039), so on Linux it still cannot be removed; on Windows it can.
  A default route `AddRoute` has added is persisted on neither.
* The timeout of the wait for NetworkManager does not bound it: the calls over D-Bus have no
  context. A probe may start a daemon that has gone between its two calls.

Seen while reading:

* *Routes.* A static route to a network that becomes the interface's own drops out of what is
  persisted, even if the address came by itself. A route without a gateway is handed to the
  backends as "via `<nil>`" on Linux and to none on Windows. An error on the second of several matching
  routes returns with the first one gone and still persisted. When one `resolvectl` command has
  failed, the host's `resolv.conf` is rewritten with one interface's servers.
* *cloud-init.* A second failed `Save` of a process prunes the backup that holds the only copy
  of a section, hence the proviso `failed < Retention` of `SectionsSurvive`. Of two base files only
  the first is read (`cloudinit.go:283-287`): a process that dies after it has moved `cloud.cfg`
  away brings `network.json` to light, the v1 list of which hides that of a drop-in; the next
  `Save` removes the drop-in's section, and its interfaces are gone with the backups of the
  calls after that, hence the proviso `OneBase`. A main file that is
  encapsulated has no place for v2 stanzas, and those of other files are dropped. The v1 list
  of a later file is dropped when lists are merged. In v1, `SetIfaceDHCP` drops the servers
  and routes of DHCP subnets, a call without addresses those of all, `SetIfaceDNS` on an
  interface without subnets does nothing, and an IPv6 gateway no subnet holds is not kept. After
  a death with the base file renamed away there is no cloud-init backend any more.
* *network-scripts.* Aliases that use the same keys are merged into the first value of each, and
  the address of the second is lost. A call with more than 256 IPv4 addresses writes keys that are
  not read and that no later call removes (`networkScripts.go:842` against 573 and 829). Backups of aliases and route files are never pruned.
* *ifupdown.* The stanzas of other interfaces that follow a second run of the interface's own
  are dropped, and a `source` line right after its stanza (`ifupdown.go:1014-1038`), and an
  `auto` line that names the interface between two of its stanzas makes two runs of them
  (`ifupdown.go:970-990`), hence the proviso `Together` in `OthersKept`; an interface new to the files is seeded with the main
  file, so one that is in a sourced file may be written twice; `SetIfaceAddresses` and
  `SetIfaceRoutes` for an interface it does not know return nil (the comment at 1079-1082).
* *networkd.* A file with two `[Network]` sections keeps the old settings of the second.
* *cPanel.* `removeIPv6` may take the replacement from an account it was not listing
  for (`cpanel.go:231-233`).
* *NetworkManager.* Its calls return nil when no profile matches the interface
  (`networkManager.go:413-417`), which `applyIfaceDHCP` counts as a backend that accepted
  the change (`networkConfigurator.go:253-262`). After `SetDHCP` has turned a client off on an
  activated device, whose lease is "left to expire" (`configurator_linux.go:1089-1092`), a
  `SetDNS` reapplies the profile (`networkManager.go:886-901`) and with it the method without the
  client. A VLAN or a bridge has the hardware address of the card below it, so a call for an
  interface without a profile of its own changes the one pinned to the card
  (`networkManager.go:441-459`); `OnlyItsOwnProfiles` exempts just that. `SetIfaceDHCP` reads the
  state of the device (`networkManager.go:764`) and reapplies after it; a device that finishes its
  activation in between loses the lease it has just got, hence the proviso
  `changes = pre.changes` in `LeaseIsLeft`.
* *Windows.* An address with the prefix of a single one that no other network of the adapter
  covers is not listed, and is lost on any address call. One that is inside two networks is
  listed with the prefix of the first, and an address call gives it that prefix (`configurator_windows.go:89-127`). A failing `SetIPAddresses` leaves the
  adapter flushed. `RemoveRoute` deletes before it lists, so a listing that fails leaves the
  route persisted.

## Not modelled

* `GetInterfaces`, `NewConfigurator` and `mergeBackendState`: they read and choose; what they
  return is the start of the models.
* The ranking of interfaces (`preferInterface`, `gatewayRank`, `naturalLess`): pure
  functions; in the plan.
* `renewDHCP` of the backends: commands whose outcome nothing reads.
* Formatting and parsing of YAML, ini, interfaces and D-Bus text beyond what a property
  needs; command execution, ICMP and HTTP probes, logging: input and output.
* Options that only set a timeout or a path.
* Fallback directories of netplan and networkd, matching networkd files by MAC address,
  `down` lines, `source-directory` and nested `source` of ifupdown.
* Concurrent callers: the library has no lock and promises nothing. A model of two
  processes writing one directory is in the plan, to say what can happen.

## Plan

Done, in this order: the configurator's address calls; file replacement with netplan and
networkd; the panels; ifupdown; NetworkManager with `SetDHCP`; cloud-init; network-scripts;
routes and resolvers of both systems; readiness; Windows; the address calls as an
implementation of `AddressBook`; the proofs above.

Next, the most important first:

1. **Refinement of `ConfigFiles`**: a directory whose files change from one text to another,
   or are lost with a backup, implemented by each backend's `Save`.
2. **`Ranking`**: `preferInterface`, `gatewayRank`, `ifaceNameRank` against a
   declarative order, checked over bounded inputs: total, irreflexive, one minimum.
3. **`GetInterfaces` with `mergeBackendState`**: what backends that disagree make of one
   interface.
4. **Two processes** on one netplan directory.
5. **`renewDHCP`** of network-scripts and ifupdown: an interface that is down between its two
   commands.
