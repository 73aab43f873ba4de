# A verification of MaWiM in TLA+

MaWiM is an automatically tiling window manager for X11, written in C, that is
controlled by `mawimctl` processes over a UNIX domain socket. This directory
holds TLA+ models of it, TLC configurations that check them on small instances,
and theorems about them with proofs for TLAPS. `PROJECT.json` lists the runs,
the definitions with the lines of code they translate, the hazards of the code,
and the theorems.

    tlc -workers 2 -config wm_lists.cfg MCWindowManager.tla
    tlapm TilingProofs.tla
    tlapm WindowListProofs.tla
    tlapm WindowManagerProofs.tla
    tlapm WindowManagerTilingProofs.tla
    tlapm CtlServerProofs.tla
    tlapm CtlPacketProofs.tla
    tlapm CtlExchangeProofs.tla
    tlapm ServerStartProofs.tla

## The program

One process with one thread. Its loop (`src/mawim.c`, `main`) handles X events
until there are none, lets the control server accept and read connections,
handles the commands that were queued, sleeps 100 ms, and starts again.

| part | state | operations | module |
| --- | --- | --- | --- |
| tiling, `src/window.c` | row, column, rectangle of a window; `row_count`, `active_row` of a workspace | manage, unmanage, update one, update all | `Tiling` |
| window lists, `src/window.c`, `src/workspace.c` | structs linked by `next`; `first`, `last` of a workspace; `focused_window` | find, append, remove | `WindowManager` |
| event handlers, `src/events.c` | none | ConfigureRequest, MapRequest, DestroyNotify, LeaveNotify; ButtonPress | `WindowManager`; `CtlServer` |
| command handlers, `src/commands.c` | `active_workspace` | SET_WORKSPACE, CLOSE_FOCUSED, MOVE_FOCUSED_TO_WORKSPACE, GET_WORKSPACE, GET_VERSION, RELOAD | `WindowManager`; `CtlProtocol` |
| control server, `src/mawimctl_server.c` | the listening socket, accepted sockets, `pending_cmds` | start; update (accept, read, queue), next command, respond; the bytes of a packet | `ServerStart`; `CtlServer`; `CtlPacket` |
| control client, `mawimctl/` | one connection, one command, exit status | connect, send, read; the tool's commands and arguments | `CtlServer`; `CtlExchange` |
| X server and X clients | existence and mapping of windows; the event queue | requests, events | environment of `WindowManager` |

They interact by calls in that one thread, by the X event queue, and by
sockets. What makes the program hard to get right:

* A handler acts on an event that is older than the state of the X server: a
  window may be gone, or the workspace may have been switched.
* `focused_window` is a pointer that lives from one LeaveNotify to the next
  command, while windows are freed and moved between workspaces.
* Rows, columns, counts and rectangles are stored, not derived, and every
  operation corrects the part it believes to be affected.
* A struct can get onto the wrong list, or onto two, when a command uses a
  stale focus; the lists are walked without bounds.
* The thread that must thaw the pointer after a button press also blocks in
  `read` on accepted sockets. Connections of handled commands stay open.
* Nothing removes the socket file when MaWiM ends. Each start has to tell the
  file of a crashed instance from that of a running one, and does so by
  connecting to it, without any lock.
* Packets have no single definition: client and server each copy bytes at
  offsets of their own, and the size of the header in `mawimctl.h` is one more
  than the header that both write and read.

## Modules

* `Tiling` is the abstract specification of the window manager. A window list is
  a set; the layout is one record, `desk`; each function of `src/window.c` is an
  operator from desk to desk, and each handler an action that composes them.
* `TilingProofs` proves its invariants. `MCTiling` adds symmetry for TLC.
* `WindowManager` has the structs on a heap (`Structs` are the addresses), the
  lists with `first`, `last` and `next`, the X windows, the event queue and the
  position of `main`. A handler is one action: nothing else runs while it does.
  Four kinds of undefined behaviour are explicit. An index out of the array of
  workspaces, a use after free, a list that runs into freed memory, and a free
  of an uninitialized pointer set `mawim.fault`, and the model stops there: what
  the compiled program would do next is not guessed.
* `WindowManagerTiling` states that `WindowManager` implements `Tiling`.
* `WindowListProofs` proves what holds of the lists under every user,
  `WindowManagerProofs` what holds under prudent ones, and
  `WindowManagerTilingProofs` the refinement. Each extends the one before.
* `CtlProtocol` has the commands and the responses that the handlers give,
  `CtlService` what a client is promised (each command takes effect once, at one
  instant, and is answered for that instant), `CtlServer` the sockets, the
  backlog, the descriptors, the queue, the loop and the `mawimctl` processes.
  A process makes one connection and sends one command, as the tool does, so a
  process stands for its connection too.
* `CtlServerProofs` proves the safety of `CtlServer` and that it implements
  `CtlService`.
* `CtlPacket` has the packets byte for byte: the two encoders and the two
  parsers, which are four functions in the code. Its proofs show that they fit.
* `CtlExchange` uses them in whole exchanges: `mawimctl` with the number that a
  user gives, other programs that use `mawimctl_client.h` (`Calls`), the
  handlers' responses, the exit status and what is printed, and MaWiM ending at
  any moment. It implements `CtlService` too, this time with structs, bytes and
  lengths in place of requests.
* `ServerStart` has several instances of MaWiM and `mawimctl` processes around
  one socket file: `_try_remove_old_sock` and `mawimctl_server_start` call by
  call, the loop's accept and read, crashes at any point, and what the kernel
  does to connections when a process ends. A client that is killed before it has
written leaves a connection that is `Closed`; one that is killed later leaves its
packet, which is read and queued, and answered to nobody.
* `CtlPacketProofs`, `CtlExchangeProofs` and `ServerStartProofs` prove about them.
* The `MC` modules only add symmetry sets and the requests that are sent.

Operators that begin with the comment "Faulty" are variants of the operator
after them with a bug one could plausibly make. Nothing uses them; exchanged for
the original they make a property fail, which shows that the property depends on
it (`mutants` in `PROJECT.json`).

### Correspondence

`WindowManager`'s `mawim` is `mawim_t` with its workspaces and the heap. A
`Window` is a `mawim_window_t` without `changes` and `cols_on_row`. The requests
to map or withdraw that `mawim_update_window` issues are collected in `updated`
and take effect at the end of the handler (`Finish`); within one handler
`active_workspace` and a window's workspace do not change after the first such
request for it, except in MOVE_FOCUSED, which updates all windows at its end.
Requests about a window that is gone have no effect, as the X error handler only
logs. `Broken` detects a list that a handler has just damaged, one handler
before the program would walk it.

`CtlServer`'s steps are the system calls: accept, read together with what is
done with the packet, handling one command with its write. A read blocks: the
actions for it are enabled when the client has written or closed. The state of
windows is not there, so that CLOSE and MOVE may answer either way.

In `CtlPacket` a null pointer is `None` and memory that `malloc` returned is a
sequence of bytes; `Arrived` says what a struct looks like at the other end,
where an empty array has become a null pointer. In `CtlExchange` a command is
received, handled and answered in one step, `Serve`; what may happen between
these is the subject of `CtlServer`. A version is a sequence of characters, and
`Stray` the byte that the program copies from behind its array.

`ServerStart`'s `stage` is the place of `main` before its next system call.
`Where` is the name as the user gave it, which `access` and `remove` use,
`SockName` what `strncpy` leaves of it in `sun_path`, which `connect` and `bind`
use. External, as the kernel behaves: a socket that is bound and does not listen
refuses connections; `connect` waits while a backlog is full; the end of a
process closes its sockets, upon which a peer reads the end of the stream or an
error. Which instances are up at first does not matter, as each may start.

### The refinement mapping

`Desk` maps lists and structs to a layout. It is held in an auxiliary variable
`desk`, equal to `Desk(mawim)` in every state, so that TLC evaluates it once per
state. `ImplementsTiling` is `Tiling!Spec` under that mapping. For `CtlServer`
the mapping is direct: a command is served when the server has accepted its
connection, does not read from it any more and does not hold it in its queue.

For `CtlExchange` the mapping decodes. A command is `Requested` when a client
has sent it, as what it means (`Meaning`); it is `Served` when its bytes are no
longer in the inbox; it is `Answered` with what the reply means to the client
(`Understood`); a client that has ended without a reply is `Gone`.

### Assumptions on constants

`TilingAssumption`, `WindowManagerAssumption`, `CtlServerAssumption`,
`ExchangeAssumption` and the others say that sets of windows and addresses are
finite, that sizes are natural numbers, at least 1 for the numbers of rows and
workspaces, and that the version has below 100 characters (the code's array).
What remains tells values of the model apart that the program cannot confuse:
what is at a free address is no struct (`FreeAssumption`), a null pointer is
neither bytes nor a command (in `ExchangeAssumption`) nor the meaning of one
(`NoRequest`). TLC evaluates each of them in the runs.

## The two specifications of WindowManager

`Spec` allows every command a client can send at any time. Under it the program
reaches all four faults. `PrudentSpec` is the same program under users who
number workspaces from 1, move or close only while the focus that the handler
reads is on a window of that workspace, and do not close from the last
workspace. Its handlers are the same actions. What holds only there is what the
program gives to users who avoid its known defects; the defects
are listed under "What the runs show". Because `PrudentSpec` keeps stale focuses away by its guards,
`NeverFaults` and `OnlyDestroyUnlists` say nothing of them there; what a stale focus
does to the lists is the subject of `wm_move` and `wm_full`.

## Runs

| run | instance | shows |
| --- | --- | --- |
| `tiling` | 6 windows, 2 workspaces, `MaxRows` 3 (the program's value), 7 x 5 screen, symmetric windows | type, rows, columns, rectangles, reading order |
| `wm_lists` | 2 windows, 2 addresses, 2 workspaces, `MaxRows` 2, 2 queued events | heap, lists, X windows; no fault; switching; liveness |
| `wm_tiling` | 3 windows, 3 addresses, 1 queued event, symmetric | refinement of `Tiling` |
| `wm_full` | 2 windows, 2 addresses, 1 queued event, all commands, symmetric | what survives stale focus and bad numbers |
| `ctl` | 3 clients, 5 requests, backlog 0 (one connection waits), 3 descriptors | refinement of `CtlService`, descriptors, liveness |
| `packet` | 2 clients, 6 arguments, 9 commands of other programs, a version of 2 characters | encoding, truth of the exit status, refinement of `CtlService` |
| `start` | 3 instances, 2 clients, backlog 0, starts one at a time | take-over of the socket file, liveness |
| `wm_dangling`, `wm_shown`, `wm_move` | as `wm_full` | a document or comment that the program does not keep |
| `ctl_fds` | 2 clients, 1 descriptor | likewise |
| `start_race` | as `start`, starts overlap | likewise |

**Bounds.** With `MaxRows` = 3 a row opens at the third window, so that six
windows fill three rows, let the last row grow beyond `MaxRows` once rows above
it have emptied, and let each of them empty. 7 and 5 are not divisible by the
counts, so that the rounding of the tile sizes occurs. With `MaxRows` = 2 the
same branches need two or three windows, which is what `WindowManager` affords:
three make a struct in the middle of a list. `MaxEvents` = 2 lets a
ConfigureRequest and the DestroyNotify of its window wait together. As many
addresses as windows suffice while no struct is lost, and make an address be
used again at once. Workspace numbers go from 0 to one too many. A descriptor
limit of the number of clients is the program below its limit; the real limit of
about a thousand makes the same happen later. `packet` has arguments on both
sides of 1, of 9 and of the 8 bits to which they are cut, and data of length 0,
1, 2 and 256, so that both bytes of the length matter. Three instances are one
that serves, one that is at its bind after a probe and one that starts between
the two; with backlog 0 the second connection finds it full. While starts do not
overlap, a probe waits for a backlog that a client has filled; only in
`start_race` do two probes wait for the same one.

**Deadlock** is checked, except under `WindowManager`'s `Spec`, where the program
may stop at a fault, and in `packet`, where every client ends after one command.

**Fairness.** One thread runs whenever no system call holds it, hence weak
fairness of the delivery of an event (a handler that has begun ends), of the end
of the event loop and of the end of the loop over commands. The queue of commands
is bounded when its loop begins, as commands are only accepted before it. In
`CtlServer` weak fairness of the whole server step is used, and two assumptions
about others: a `mawimctl` process that has connected goes on to write and to
read (its code does nothing in between), or is killed, and the X event queue is found
empty again and again (strong fairness of `EventsDone`), because a user does not
press buttons faster than the loop handles them. No fairness is assumed of users, of X clients,
or of the death of processes.

`ServerStart` has weak fairness of the calls of an instance that has started and
of each client, and strong fairness of the two that wait for room in a backlog
(`ProbeAnswered`, `Connect`), since the kernel wakes who waits there. Nobody has
to start, crash or kill anything. `ClientEnds` has a premise of its own,
`StartsCease`: `mawimctl_server_update` accepts until nothing is left, and only then
are commands handled, so that an endless stream of starting instances, each with
its probe, would keep a command waiting for ever.

## What the runs show

`tiling` shows that every sequence of opening, closing, moving and switching
leaves rows without holes, columns `0 .. n-1`, no overlap and nothing off the
screen, and that two windows keep their reading order unless a command moves one.
Rows above the active one have fewer than `MaxRows` windows (`ClosedRowsBounded`);
the active row itself may have more. The last of `MaxRows` rows takes every further
window; once rows above it have emptied it is the active row at a smaller index,
and as `mawim_manage_window` compares the count by `==`, no row is opened again until
it has shrunk. The model does the same, and nothing written says otherwise.

`wm_lists` and `wm_tiling` carry this over to the pointers: each struct is on
the one list that it names, `last` is the end of the list, none of the four kinds of
undefined behaviour is reached, whichever window a LeaveNotify picks from
uninitialized attributes, and each handler is a step of `Tiling`. A struct made for a window that is already destroyed is
removed by the DestroyNotify that is still queued, also under further
commands.

`wm_full` shows that even with every stale focus the divisor `row_count` stays
positive and no list becomes circular. The test in `mawim_append_window` whose
comment asks how a circular list can happen is needed: without it a window moved
twice to the other workspace makes one.

`ctl` shows that each command is executed once and answered to its own client,
and that no client, not even one that dies before it writes, keeps the pointer
frozen, provided that clients write or die.

`packet` shows that the command that MaWiM parses is the one the client filled
in, in spite of the wrong size of the header (both sides are wrong by the same
byte); that `mawimctl` exits with 0 only when MaWiM has read its command and answered OK
(which for RELOAD means nothing, as it does nothing); and that the byte from behind the version string is never shown.

`start` shows that, as long as starts do not overlap, a socket file that leads to a
running instance is never taken from it and one that does not is always taken
over, wherever its instance crashed; that a probe, although its connection is never
used nor closed, holds up the running instance only until the prober has ended;
and that neither starts nor clients wait for ever.

The five runs that end in a violation are in `findings` of `PROJECT.json`: the
focus outlives its window; a MapRequest shows a window of a hidden workspace; a
second MOVE on the same focus makes MaWiM forget another window; connections are
never closed; of two instances that start at once both serve, and one has lost
its file.

Five more places where the program departs from what is written of it are part
of the models, without a run of their own. CLOSE_FOCUSED, which "Causes MaWiM to
close the currently focused window.", indexes with the 1-based number of the active
workspace (`src/commands.c:48`): it destroys the focused window of the next workspace, and
on the last one reads beyond the array. A single command shows it. SET_WORKSPACE 0 is accepted, against
"The workspace number is a 1-based index." (`doc/mawimctl.md`); under `Spec` a handler of
`WindowManager` then reaches the fault of a bad index. A command that is
refused is answered whatever its flag NO_RESPONSE says. A `MAWIMCTL_SOCK` that does
not fit into `sun_path` makes `Where` and `SockName` differ: then no start
removes the stale file, and `ServesAtFile` and `FailsOnlyIfAnswered` fail. And the
packets have two bytes of length, where the table of commands in
`doc/mawimctl.md` has one.

## Proofs

`TilingProofs` holds for every finite set of windows, every number of workspaces
and of rows, and every size of the screen (`TilingAssumption`).

The invariants of `Tiling` are not inductive by themselves: between
`mawim_unmanage_window` and `mawim_manage_window` of a move, the layout has a
window on no row. `Layout` says what each function keeps although a window may be
without a slot: types; `RowsOK` (rows in use, the active row last, closed rows
below `MaxRows`); `SlotsOK` (a row in use, a column below the number of windows
of the row); `SlotsDistinct` (no slot twice). The inductive invariant `IInv` adds
that exactly the listed windows have a slot, and that each rectangle is the
one the layout gives. The lemmas follow the functions: `PlaceLayout`,
`ManageNew`, `ManageTiled`, `CloseColumnLayout`, `CloseRowLayout`, `UnmanageOK`,
`MoveToListOK`, `ForgetWindowOK`; `StepOK` composes them for each action. That
columns are packed follows from `SlotsDistinct` and a counting argument (an
injection of n windows into `0 .. n-1` is onto). That tiles are disjoint follows
from `SlotsApart`, that they are on the screen from `SlotInside`.
`ReadingOrderAlwaysStable` says of steps what the invariant says of states:
`mawim_manage_window` gives a slot to its window alone (`ManageSlots`), and closing a
column or a row is monotonic on the other windows (`CloseColumnOrder`,
`CloseRowOrder`) because none of them is in the slot that closes.

`CtlServerProofs` holds for any set of clients, finite or not, any requests, any
backlog and any number of descriptors (`CtlServerAssumption`,
`RequestsAssumption`). That descriptors are valid is not inductive: why is a
socket that is queued not queued again? Its inductive invariant adds that a
client that has not written has at most a connection being read (`UnwrittenOK`);
that the backlog holds clients that have connected and were not accepted, each
once (`BacklogOK`); that a connection is read only in that part of the loop, and
is open (`ReadingOK`); and that the queue holds, each once, open connections
that are not being read, with a command that is not refused (`PendingOK`). There
is one lemma per action. The same invariant carries the refinement
(`ServiceImplemented`): SendCommand is Call, a client's end is Hangup,
HandleCommand and a RefuseCommand with a packet are Serve, all else is a stutter.
The delicate steps are those that take a connection out of `reading` or out of
the queue: Served must grow by that client alone, which rests on `Distinct`.

`CtlPacketProofs` holds for every command and response with up to 65535 bytes
of data, and rests on no assumption. `CtlExchangeProofs` holds for any clients,
arguments, commands of other programs (a MOVE must have data) and version below
100 characters (`ExchangeAssumption`). Its invariant ties the three places of an
exchange: a packet that waits is the encoding of the client's command, a reply is
there only once it was read, and a client that has not begun has neither. The
round trip of a command then gives `CommandArrives`. For the exit status, `ReportsOK`
adds that a status 0 was parsed from a reply; for the version, `VersionReply` says
what the reply to GET_VERSION consists of, and `VersionString` that its
characters up to the first 0 are the version.

`ServerStartProofs` holds for any instances, clients and backlog.
`AlwaysServesAtFile`, `AlwaysTakesOver` and `OneServes` assume ~`StartsOverlap` and
`Where` = `SockName`, without which they are false (`start_race`). The inductive
invariant says what a start knows at each call: at `remove`, that nobody
serves; at `bind`, that the name is free unless the probe was answered; at
`listen`, that the file is its own. It knows this because an instance can only
come to serve in a start of its own (`OneStart`).

`ExchangeServes` shows that `CtlExchange` implements `CtlService`. By the round
trips of `CtlPacketProofs`, what MaWiM parses from a waiting packet is what the
client meant, and what the client parses is what MaWiM answered. Hence a `Serve`
is one of the service's, and the death of MaWiM between two steps leaves clients
unanswered but never answered for something else. The delicate case is the flag
NO_RESPONSE: its bit in the bytes has to keep a command from being answered exactly
when the service says `Silent` of what was asked (`SilentOf`).

### The lists under every user

`WindowListProofs` is about `Spec`, with every number, every stale focus and all
that follows from them. `ListInv` is `TypeOK` with

* `RowsOK`: `row_count` is in `1 .. MaxRows` and the active row is the last, which
  gives `RowsCounted`. It stands whatever the lists are: how many windows a walk
  finds on a row decides whether a row is opened or closed, but one is opened only
  below `MaxRows` and closed only while there is another.
* `Acyclic`: there is a numbering of the structs along which every link goes
  down. "No list is circular" is not inductive: a struct that a second MOVE has put on
  two lists makes them share a tail, and a stale `last` is appended to, so that
  whether an append closes a circle depends on structs no list shows. A
  numbering of all structs covers these. `mawim_append_window` clears the link of
  the struct it appends, and the test that its comment calls circular keeps it
  from being linked to itself; so the struct can be renumbered to be lowest
  (`LinkAcyclic`). `mawim_remove_window` cuts a link or goes around a struct
  (`CutAcyclic`, `SkipAcyclic`).
* as long as there is no fault, `Whole`: no list runs into freed memory, which is what
  lets the walks of the next handler be taken for lists.

That a walk along descending links ends after at most as many steps as there are
structs is induction on the steps. The library's induction theorems have an
operator for a parameter; here the induction is on a set of numbers
(`NaturalInduction`, `IntervalInduction`, proved from the well-foundedness of <),
and the recursive function `Chain` is unfolded one step at a time.

### The lists under prudent users

`PrudentInv` is `ListInv` with

* `Tidy`: the lists are disjoint, each a chain with one end, at which `last` is, and
  list i is the set of structs that name workspace i (`Partition`); no two
  structs stand for one window (`Alone`); there is no fault; the active workspace exists.
  Each of them is needed for the others: `mawim_remove_window` unlinks from the list
  that the struct names, and finds by the window, not by the struct.
* `Slotted`: every struct has a row and a column. `mawim_unmanage_window`
  looks for the row's windows by the struct's row, and
  `mawim_manage_window` trusts a row that is there.
* `Queued`: a listed window that the X server no longer knows has its DestroyNotify in
  the queue, and behind each ConfigureRequest of such a window. The second half is
  what makes the first inductive: the request lists the window after its end.

The lemmas follow the functions: `AppendPartition`, `RemovedTidy`, `MovedTidy`,
`TidyManage`, `TidyUnmanage`, `TidyUpdate`; `PrudentStep` composes them. From
`PrudentInv` follow `PrudentLists`, `PrudentNeverFaults`, `PrudentNoZombies`,
and the action properties `PrudentUnlisting` and `PrudentSwitch`.

### WindowManager implements Tiling

`Mirrors(m, d)` says that the desk d has for every listed window the workspace, row,
column and rectangle of its struct, and nothing for the others. There is one
lemma for each function: the record after `mawim_manage_window` is mirrored by
the desk after `Tiling`'s ManageWindow (`ManageMirrored`), and so on
(`UnmanageMirrored`, `UpdateAllMirrored`, `ListedNewMirrored`, `RemovedMirrored`,
`RenamedMirrored`). Here the differences of the two levels are bridged: a count
along the list is the cardinality of a set, a loop over rows is a set of windows moved up,
a window that is skipped because it is compared by name is the one that leaves, and a struct
that is freed is a window forgotten. `LayoutInv` is
`PrudentInv` with desk = `Desk(mawim)`; by `LayoutStep` each handler is an action
of `Tiling` or leaves the layout as it is, so that the theorems of `TilingProofs`
are about the structs.

### Not proved

Liveness (`DestroyedIsUnlisted`, `ConfiguredIsTiled`, `PointerThaws`,
`CommandAnswered`, `ReadEnds`, `StartEnds`, `ClientEnds`) is out of reach of the
proof system and stays with TLC. Every other property of a run that passes is
stated by a theorem. The five that the program violates are refuted by TLC.

## Not modelled

* `mawim_destroy_window_list`, `mawimctl_server_stop`, `mawim_shutdown`: no
  caller, or after an endless loop. `mawim_activate_workspace` and its
  companions are empty.
* `mawim_x11_error_handler`, `src/logging.c`, `src/xmem.h`: output, and
  allocation that ends the program when it fails.
* Packets that the client library cannot make, as one shorter than its header (`ctl` has it as the
  request "short") or with a length other than that of its data, and MOVE
  without data, for which the program reads through a null pointer.
* Failures of `socket`, `fcntl` and `listen`, and of `malloc` in the tool, each of which ends the
  process; file permissions.
* What `mawimctl` prints without arguments, `--help` and `--verbosity`.
* One loop with `WindowManager` and `CtlServer` together: commands reach `WindowManager`
  in any order and number, which includes every order that `CtlServer` lets through, and their
  answers depend on windows only in OK or NO_WINDOW_FOCUSED, both of
  which `CtlProtocol` admits.
* `max_cols` is never read by the program. RELOAD does nothing. UnmapNotify is not handled:
  a withdrawn window keeps its tile; `UnmapWindow` lets this happen.

## Plan

1. Done: the modules, the runs, and the proofs listed above.
2. The theorems of `TilingProofs` for the structs themselves, through an instance
   of that module under the refinement mapping.
3. The safety part of the answers: that under prudent users each command about the focus
   has the effect its response reports.
