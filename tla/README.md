# UniMod in TLA+

UniMod is a mod for the game NoX: a DLL that patches itself into the running game, puts a Lua machine into it and
adds a console, account handling, map transfer, timeouts, an HTTP server and client, and several hundred functions
that scripts may call. This directory holds TLA+ models of the parts of it in which control is hard, the TLC runs
that check them and the TLAPS proofs about them.

How to run (in this directory):

    tlc -config MCAuthSession.cfg MCAuthSession.tla      # likewise every run listed below
    tlapm AuthSessionProofs.tla                          # likewise every *Proofs.tla

## 1. The system

### 1.1 Components

Two kinds of threads matter. The *main thread* is the game's: it draws, receives packets, makes a frame some thirty
times a second, and everywhere it does so UniMod has hooked a function of its own. The *helper threads* are started
by UniMod with `_beginthreadex` for what may block: writing the account file, asking another server to check a
login, fetching a page. There is no lock anywhere; the main thread polls the handles of the helpers
(`WaitForSingleObject(h, 0)`), and what the threads share is written and read as it comes.

| component | source | state it keeps | operations | hard behaviour |
|---|---|---|---|---|
| account table and its file | `authManager.cpp` | `authData`, `updateAuthDB`, `authUpdating`, `authData.bin` | register, lock, delete, change password, log in, save, load | the save thread walks the map while the main thread changes it; restart in the middle of a save; a queue of changes served by one save at a time |
| login dialogue | `admin.cpp`, `net.cpp`, `util.cpp`, `authManager.cpp` | per slot `authorisedState`, `authorisedLogins`, `authSendWelcomeMsg`; `notLoggedIn`, `notLoggedInRemote`, the login thread | join, leave, chat, countdown, check, answer, switching it on and off | checks belong to slots, not to players; answers that come after their player has gone |
| remote commands | `authManager.cpp` | `remoteCommandList`, `remoteAuthUpdating`, the command thread and the login thread | the account functions with a remote server, `authRemoteCommand`, the report of `updateAuthDBProcess`, `authToggle` | one command in flight; the buffer of a login command is shared with the queue; the server is changed while threads read it |
| server timeouts | `util.cpp` | `timeoutList`, functions and arguments in the registry, `conOutput` | `setTimeout`, the pass of `onEachFrame`, `mapUnloadUtil` | functions that set further ones while the list is walked; the Lua stack discipline |
| client timeouts | `cliUtil.cpp` | `cliTimeoutList` | `cliSetTimeout`, `cliOnEachFrame` | the same list, with a pass that stops early |
| HTTP client | `Libs/webserver.cpp` | `httpGetQueue`, `alreadyActive`, the thread | `httpGet`, `httpGetCallback` | one request in flight, results read by another thread |
| HTTP server | `Libs/webserver.cpp`, `admin.cpp` | none between requests | `httpServer`, `serverRequest` | one blocking request a time |
| next game | `admin.cpp` | `formGameTable`, `formNextGameTable`, `needToFormGame`, `mapCycleCurrentList`, `mapCycleCurrentPosition`, `nextMapOverride`, `mapNextSameForced` | `formGame`, `formNextGame`, `doFormGame`, `onLoadMapCycle`, `mapCycleNext` | requests served on a later frame; overrides that outlive the game they were meant for |
| archive transfer | `filesystem.cpp`, `net.cpp` | the client's file and chunk counters, the server's archive | prepare, start, send, write, abort | a stream of chunks cut at a size boundary, aborted half-way |
| packets and lines for a console | `net.cpp`, `libVer.cpp` | the frame being taken, `clientsVersions` | `onNetPacket`, `onNetPacket2`, `netOnCli`, `netOnServ`, `netDoPrintConsole`, `sysopMyTrap` | packets taken out of a frame that the game goes on with; the filter runs past the end of a frame; state that changes between two packets of one frame |
| console line, history and commands | `console.cpp`, `libVer.cpp` | line, cursor, history | editing keys, `conDoCmd` | boundaries of line and history |
| walls | `map.cpp` | the wall lists of the map | create, delete, break | lists shared with the game |
| exception filter | `util.cpp` | `exMode` | `ExceptionFilter` | runs once, at the end |
| replays | `replays.cpp` | streams | record, play | `replayInit` starts neither |
| script bindings | `unit*.cpp`, `player*.cpp`, `windows*.cpp`, `spell*.cpp`, `spelList.cpp`, `tiles.cpp`, `mapUtil.cpp`, `defs.cpp`, `fxBuff.cpp`, `Waypoints.cpp`, `polygon.cpp`, `imageUtil.cpp`, `sprite.cpp`, `clientView.cpp`, `gui.cpp`, `score.cpp`, `react.cpp`, `bugsAndChips.cpp`, `keys.cpp`, `audServer.cpp`, `lua_addons.cpp`, ... | the game's own structures | read and write fields of them | none: argument checks and memory accesses |
| display | `SDL.cpp`, `windowMsg.cpp` | window and textures | draw | none |
| scripts | `lua/*.lua` | the editor's and the samples' own | - | - |
| third-party code | `Libs/LuaJIT-2.0.3`, `Libs/SDL`, `Libs/zlib`, `Libs/lpng151`, `Libs/luasocket`, `Libs/csha1`, `Libs/json.c`, `Libs/lpeg.c`, `bzip2` | - | - | not this program |

### 1.2 How they interact

* Every component but the helper threads runs on the main thread and is called from a hook: `onEachFrame`
  (timeouts and the dialogue's countdown), `OnGuiUpdate` (finishing saves, login checks and HTTP requests,
  starting the game that `formGame` asked for), `onNetPacket2` (chat), `onPlayerJoin`, `onPlayerLeave`,
  `onServerStart`, `onLoadLevel` (which drops timeouts and closes the map's archive).
* Helper threads talk to the main thread through plain variables that are read after the thread has ended, and
  (the save thread) through the account map while it runs.
* The login dialogue reads the account table (`authLogin`) when no other server is set, and sends a command of the
  remote protocol when one is.
* Lua code reaches every component through registered functions, from the console, from a timeout, from a hook
  such as `onEndGame`, or from an HTTP request.

### 1.3 What makes each part correct

* *Account table*: nothing a caller was told is done may stay out of the file for ever; the file a restart finds is
  made of records that were there; a record never changes hands.
* *Login dialogue*: who is authorised proved it himself; every check is answered, and to the one who asked; the
  dialogue never gets into a state from which the player cannot go on.
* *Remote commands*: commands are executed and reported in the order they were given, each with its own outcome, and a
  request carries the command it was made for to the server it was meant for.
* *Packets*: the game takes no packet it was to be kept from, lines arrive whole, a version that is asked for is learned.
* *Timeouts*: what was set is called once, on its frame, in order, whatever the functions called do to the list.
* *HTTP client*: every request is answered once, by its own callback and with its own page, in order.
* *Next game*: the game formed is the last one asked for, with a mode the map has; the cycle goes round.
* *Archive transfer*: however the stream is cut, the client has the server's map in one file and its archive in another.

## 2. The modules

| module | what it is | code |
|---|---|---|
| `AccountTable` | abstract: a table, a file, and the promise that they agree when the database is settled | |
| `AuthStore` | the account table and its save thread; implements `AccountTable` | `authManager.cpp` 108-118, 190-317, 373-485, 710-748 |
| `AuthSession` | the login dialogue, local and remote | `authManager.cpp` 49-74, 177-188, 319-371, 602-663, 774-790; `net.cpp` 1000-1150; `util.cpp` 980-1004; `admin.cpp` 1055-1129 |
| `RemoteCommands` | abstract: commands are executed one at a time, in order, and each is reported once | |
| `AuthRemote` | the queue of commands, its thread, the login thread's half of it, the report; implements `RemoteCommands` | `authManager.cpp` 57-74, 160-188, 325-353, 373-606, 750-790 |
| `PacketLink` | the game's connection, as both filters see it | `libVer.cpp` 28-70 |
| `ServerPackets`, `ClientPackets` | the two filters, frame by frame | `net.cpp` 50-57, 151-167, 616-649, 689-772, 807-840, 874-1222; `libVer.cpp` 28-70 |
| `Packets` | a player and the server: both filters and the connection between them | `admin.cpp` 1089-1129 |
| `Timeouts` | abstract: a set of timeouts, of which each pass calls the due ones in order | |
| `TimeoutList` | the sorted list both implementations keep | `util.cpp` 960-1110, `cliUtil.cpp` |
| `ServerTimeouts`, `ClientTimeouts` | the lists and their iterators; both implement `Timeouts` | `util.cpp` 925-1118; `cliUtil.cpp` 40-135 |
| `HttpRequests` | abstract: pages are fetched one at a time, in order, each given to the callback at most once | |
| `HttpGet` | the queue, the registry and the thread; implements `HttpRequests` | `Libs/webserver.cpp` 302-489 |
| `NextGame` | requests for a game, the map cycle, and the calls the game makes when a round ends | `admin.cpp` 147-951, 1055-1068 |
| `ArchiveTransfer` | a map and its archive as one stream of bytes, server and client | `filesystem.cpp` 340-520 |
| `MC*` | the finite instances TLC checks; `MCTimeouts` also puts the server's and the client's list side by side | |
| `*Proofs` | theorems and proofs | |

Every variable of a module has the name of the variable of the code it stands for, where there is one, and every
action the name of its function. Variables commented `history` are not in the code: they record what a property
compares the present with, and no guard reads them, except that the bound on orphans counts one. Definitions
commented `Mutant` are what a plausible mistake in the code would be; they are used by no specification, and each
was checked to violate the property it is there for.

### 2.1 AuthStore

`authData` is a function of keys (`NoAccount` where there is none); two logins may share a key, for `strncpy` cuts the
digest at a zero byte. `updateAuthDB` is the length of the queue. `saver` is where the save thread is in
`saveAuthData`: `open`, `walk` (in `++it`), `key` and `account` (at the two reads of a record, which nothing holds
together: `SaveKey`, `SaveAccount`), `write` (a record is copied and not yet written), `done`, and `failed` where no thread
could be made. A data race is a choice over what the build may do: a change on the main thread while the thread walks may
move its iterator anywhere (`Rebalance`), one of a password or a lock may tear the copy of a record (`Tear`), and
`authDelete` frees the node the thread stands on (`Erase`). From then to the end of its walk the thread is `astray`: as a
key it may read any, as an account any record of the table, for the node may have been used again, or what is none
(`Debris`, with the login `TornLogin`). A record filed under another's key is therefore possible in the file;
`FiledUnderOwnKey` says when it gets from there into the table: on a restart with a save still owed or failed. A walk from a
freed node may also fault or not end at all: the first is a restart, the second the same save as one still under way,
which `EventuallyDurable` takes to come to its end. `disk` lags behind what was handed to the
stream. `fileFails` is set where opening, writing or closing failed, which nobody asks; the next save has a stream of its
own. `initAuthData` is a restart, in any state, from `disk`.

### 2.2 AuthSession

One slot per player index. `authorisedState` is a byte and wraps. `onPlayerJoin`, `onPlayerLeave`, `onServerStart`,
`ChatLogin` and `ChatPassword` (what `onNetPacket2` makes of a chat packet in states 1 and 2), `onEachFrame` (the
countdown), `authentificate` (an answer is collected, then a thread is started for the head of the queue),
`authRemoteLogin` (the thread, in two steps), `ReportCommand` (the rest of `updateAuthDBProcess`, as far as it touches a
login's buffer), `ChatShort` and `authToggle` are the actions. The buffer of the thread's command is also in the queue of
remote commands, whose report deletes it: `freed` is set if that comes before the thread has read it, and the thread then
asks what the command says or something else (`Stray`), about which the answer is then. The thread reads its command
once and `remoteCommand` twice; `LoginThreadSend` has these reads in one step, for nothing on the main thread looks at what
lies between them, and what happened to the command or to `remoteCommand` since the thread was started (`freed`, and `stale`
where `authToggle` set the latter) stands for its happening before, between or after the reads. How the queue
comes to report the command is `AuthRemote`'s matter: here it may do so at any time. `orphaned` is the set of slots with
a check whose player has left, rejoined or met a server start or a toggle since; everything the dialogue promises is
promised of slots that are *sound*, that is not orphaned, because of orphaned ones the code breaks it (section 5).
An invalid access ends the process: `fault` says which, and nothing moves any more. `login` is a `delete []` of a literal,
`pass` the `strlen` of a missing password, `server` a request put together while `remoteCommand` changes or is NULL,
`command` a buffer read after it was freed, and `length` whatever has the wrong length: an answer copied that was never
written (`webserver.cpp` 488), a report of more than 200 bytes (`authManager.cpp` 753), `new char[]` of a negative number for
a chat that is shorter than `//auth ` and starts like it (`net.cpp` 1024). The first three need an orphan
(`NoFaultUnlessOrphaned`); a freed command and a wrong length may come of any check.

### 2.3 AuthRemote

Buffers are numbered as they are allocated, which is the order they are queued in. `threads` is what the two threads are
at: `start` before the command is read, `sized` between `strlen(remoteCommand)` and `strcpy(.., remoteCommand)`, `wait`
for the answer, `done`, and `failed` where none could be made. `updateAuthDBProcess` is three steps of the main thread
(`pc`): `authentificate` starts or collects the login thread, `ReportCommand` collects the command thread, prints how
it came out and frees the buffer, `StartCommand` starts the next. The threads go on between them. The command of a login
check is in the queue as well, so it is sent twice, and the report of the one frees the buffer the other may not have
read: `own` says whether what a thread copied is its own command, and reading what was freed may give that, something
else or a fault. A connection that fails copies an answer that was never written (`webserver.cpp` 488, as `HttpGet`
has it), and a report of more than the 200 bytes at `authManager.cpp` 753 overruns its buffer (`overlong`): operators and
players both type what goes into commands. `fault` names the access that ended the process (`server`, `command`, `answer`,
`report`) and the buffer whose command it was. The last two may happen to any command; of the first two `FaultExplained`
says when: `server` to one that was under way when logging in was switched (`carried`), `command` to a login's that was
freed before its thread came to read it (`outrun`). Which login is checked when is `AuthSession`'s matter; here a check may start
on any frame.

### 2.4 Packets

A frame is the sequence of packets from `BufStart` to the end. `netOnServ` and `netOnCli` alternate: the filter looks at
what is at `BufStart` and takes out what is the mod's, then the game takes one packet, until the frame is empty. Three
things make this more than a loop. The filter goes on only while it sets `found`; a short input packet of a player who
has not logged in is skipped without that, so the packet behind it goes to the game without having been looked at
(`sLooked`, `missed`). It reads `*BufStart` also where the frame has ended, and may take what an earlier frame left
there (`Behind`, `BehindFrame`; `sOverran`, `cOverran`). And what it lets through depends on `authorisedState`, which
the packets of the same frame change. Packets whose handlers write the game's walls, tiles, sprites or units are one
kind, `uni`: to the filters they are alike. A text for a console is the sequence 1, 2, .. n of its characters, so that
a missing, doubled or misplaced piece shows; `netDoPrintConsole` cuts it up with the lengths of the code, which lose
what lies behind 2 * 199 + 1 characters (`Shown`). The dialogue (2.2) is reduced to what the filter reads of it
(`Dialogue`): that a slot moves in these ways and no others is a theorem of the dialogue's own module (`SessionMoves`).

### 2.5 ServerTimeouts, ClientTimeouts

`it` is the position of the iterator: inserting at or before it moves it on, as an iterator of `std::list` stays on its
element. `pc` says where the main thread is in the loop of `onEachFrame`: Lua code may set timeouts when it is
`idle` or in a `call`. Frames are counted modulo `FrameMod`, 2^32 in the code, and compared as the code compares
them. The depth of the Lua stack is modelled by what it leads to (`fault` is `stack`), see `RedirectLeftSo`; `error` is the
function that fails with a value that is no string, of which `lua_tostring` makes NULL and `strncat` the end of the process
(`cliCrashed` on the client's side, which has the same lines).

`conOutput` is kept for each of three environments: the server's inherits from the client's, and that from `_G`
(`util.cpp` 1222-1237; `Above`, `FoundOutput`). `onEachFrame` takes the environment of the function it calls (1025), so
`CallRecord` chooses one; what it found there, inherited or not, lies on the stack (`saved`) and comes back after the call.
A function may set `conOutput` in an environment that is not its own: `delayedCon`, which runs a console's line one frame
later, belongs to `_G` (`libVer.cpp` 148, 336), while the line runs in the server's or the client's. Such a `conOutput`
is not seen at 1046 and stays, like one set between passes; `outputSet` remembers both, and `OutputRestored` says that calls
leave all three so. There is one exception: a function whose environment inherits a `conOutput` and that clears it where it is
inherited from gets a copy of it back in its own (`bared`). `SetIn` are the environments in which code sets it.
Environments that scripts make themselves (`setfenv`) are not modelled.

### 2.6 NextGame

Between rounds Lua code asks (`formGame`, `formNextGame`), the map cycle is loaded and toggled, servers start and
`doFormGame` serves on a screen update what `formGame` noted. When a round ends the game asks
`onMapCycleEnabledCheck`, then `AskForMap` once, and once more when the answer is the map it plays, then loads: `pc`
is `play`, then `ask`, perhaps `again`, and `load`. `Available` are the modes of each map, `CycleFile` the lists of the
file, `Preference` the order in which the code tries modes. The fields that only fill dialogs (limits, teams, names)
are left out.

### 2.7 HttpGet

`registry` maps the references `luaL_ref` gave to tables; any free reference may be given. `thread` is what the handle
`httpGetThreadH` shows. `Fetch` may fail, and what it then leaves is `Junk` or the end of the process, for the code
copies buffers it never wrote. `SetUri` is Lua code writing to a table it still has: once the string the thread reads
is in no table it may be collected (`loose`). `pc` is `callback` while a callback runs, which may call `httpGet`, and
`next` where `httpGetCallback` goes on.

### 2.8 ArchiveTransfer

A byte is its position in the stream, so that a file shows which bytes it got and in what order. `serverTransferPrepair`
and `serverTransferStart` are the server's hooks, `netOnSendArchive` is the announcement, which arrives before the first
chunk; `clientOpenFile` and `clientWriteChunk` are the client's replacements of the game's `fopen` and `fwrite`. A chunk
that goes beyond the map's size closes the map's file and opens the archive's; what is left of the chunk is written to
the stream just closed, which is the archive's only if `fopen` took the same one again: a choice in `WriteCut`. The client
may meet servers without UniMod (`OtherServerStarts`), which announce nothing. `spoilt` marks transfers whose size was
wrong from the start or whose rest went nowhere; what holds of the others is `SplitAtMapEnd`, and that the sizes can be
wrong is `told_map_size` in section 5. Names of files are left out.

## 3. The runs

All with `tlc -config <cfg> <module>`; none replaces a definition.

| run | module, cfg | asks |
|---|---|---|
| `store` | `MCAuthStore` | is the file the table when nothing is queued, whatever races with a save and however earlier saves failed; is it in the end; when may a record come to stand under another's key; does it implement `AccountTable` |
| `session` | `MCAuthSession` | is who is authorised in a sound slot the one whose login and password were checked; does the answer reach the asker; which faults need a check that lost its player; is every check answered and every newcomer asked |
| `leave_deauthorises` | `MCAuthSession`, `LeaveDeauthorises.cfg` | violated: section 5 |
| `remote_commands` | `MCAuthRemote` | does a request carry its own command to its own server; how do its threads come to read what is gone; is every command reported in the end, in order and with its own outcome (`RemoteCommands`) |
| `timeouts` | `MCTimeouts` | is everything called once, in order, on its frame, whatever functions insert under the iterator; do calls leave every console's output as it was set; does the client's pass, which stops at the first record that is not due, miss nothing |
| `redirect_left_so` | `MCTimeouts`, `RedirectLeftSo.cfg` | violated: section 5 |
| `next_game` | `MCNextGame` | is what was asked for what is played, in a mode the map has; are flags spent; is a request taken up; does the cycle, left alone, go round, with maps listed twice, maps that do not load, and an empty list |
| `cycle_follows_mode` | `MCNextGame`, `CycleFollowsMode.cfg` | violated: section 5 |
| `http_get` | `MCHttpGet` | is every request answered once, in order, with its own page; are references lost or given twice |
| `archive_transfer` | `MCArchiveTransfer` | do map and archive arrive as two files wherever the stream is cut, also after transfers that were broken off or aborted |
| `told_map_size` | `MCArchiveTransfer`, `ToldMapSize.cfg` | violated: section 5 |
| `packets` | `MCPackets` | is the game spared what the filter has looked at, though the state changes within a frame; are lines printed whole and in order; is the version learned |

### 3.1 Bounds, and why they are enough

* `store`: two keys, three logins of which two share a key, two passwords, a queue of two, and one account that is none for
  freed memory to be taken for. A save may be disturbed behind, at and ahead of its iterator, and a queue may hold a change
  of before a save and one made during it (about 880,000 states in a minute and a half).
* `session`: two slots, one login, one password, a queue of two and one orphan at a time. Two slots let one be left and
  taken again while the other is being checked. What was sent is forgotten with the session, so an old check differs
  from the present one even with one password; that two passwords are never mixed up is proved for any number
  (section 4). Slots do not interact but through the queue and the thread, where a third behaves as the second. One
  orphan is enough for every fault we know of; what a run with more would show is that sound slots stay sound, and that
  is proved, too. Symmetry (of slots and of passwords) is used in `leave_deauthorises` only. `WelcomeFrames` is 1 for 30: a
  countdown that counts is covered by the proof of `NewcomersProgress`, for any number (about 584,000 states in under three
  minutes).
* `remote_commands`: two servers with addresses of two lengths, and two commands: one waits while the other is executed,
  one of them may be a login's, and the server may change under both, and each may be too long to report. With more the theorems say the same (about 2.2
  million states in two and a half minutes).
* `timeouts`: three frames and three timeouts on either side. A function may insert before, at and behind itself, and
  frames wrap. The bound on timeouts is what ends a pass whose functions set themselves again at once; in the code such
  a pass does not end. The two lists share nothing, so a behaviour is one of either (`side`).
  `conOutput` is set in the server's and in the client's environment: one that is inherited, one that inherits. `_G`, from
  which both inherit, is left out of `SetIn` for time (300,000 states in under a minute; with it 1.1 million in three and
  a half, and nothing found); the proofs are for any `SetIn`.
* `next_game`: three maps, each of which lacks a mode and one of which does not load, three modes of which one has no
  list, and four requests: a map, a mode the current map may lack, a new game, a map that does not load. One list has a map
  twice. Requests repeat, so flags of one round meet the next.
* `http_get`: two tables, two strings, three references: one being served, one waiting and one left behind or made by
  the callback.
* `packets`: two packets under way where a game sends one, besides the mod's own answers, so a frame may hold a short
  input with another packet behind it, and two lines of the dialogue. Lines have two characters for 199 and the text is
  of six, too long for its three lines. Once in a session and side the filter takes something from behind a frame, and
  once a sysop is answered. The client is one of this mod; logging in is on or off throughout.
* `archive_transfer`: maps of two to five bytes with archives of none, no, one and four bytes, and chunks of one to three:
  a chunk may end before, at and behind the end of the map, be shorter or longer than either part, and go from the first
  byte of the map into the archive. Two transfers in a row show what one leaves for the next; any number may follow.

### 3.2 Fairness

Nobody owes anything: players, the operator and Lua code are never fair. Fair, weakly, are

* `updateAuthDBProcess`, `authentificate`, `httpGetCallback`: called from `OnGuiUpdate`, on every iteration of the
  game's loop (in `AuthRemote` all three steps of it);
* `onEachFrame`, `cliOnEachFrame` and the next frame: the game makes frames, and the functions called come to an end (a
  timeout function that does not return stops the game, too);
* `saveAuthData`, `authRemoteLogin`, `authRemoteCommand`, `httpGetThread`: threads that wait for no other thread; that a fetch ends is assumed (the
  code sets no timeout on `recv`);
* `netOnServ`, `netOnCli`: both games take what has arrived and go through their frames;
* the end of a round, in `NextGame`: the game ends rounds and then makes its calls.

A process that has been ended is fair to nobody: liveness is stated up to `crashed`. It is also stated up to a thread
that could not be made (`Stuck` in `HttpGet`, `failed` in `AuthRemote`,
`AuthSession` and `AuthStore`): nothing tries again.

### 3.3 What is assumed of the game and of Lua

The game's code is not in the repository. From how the hooks are written we take: it asks for the next map a second time
when the first answer is the map it plays (comments in `noxOnNextMapCycle`'s hooks); an empty name leaves the map as it
is; at `onServerStart` the game's flags are those of the new game; a player slot has at most one player; it sets
`mapFileSizeServ` to the size of the map before it asks for memory to load it into, delivers packets and chunks in the order
they were sent in, in frames of any number, goes through a frame packet by packet, and closes the file the client has when all has come. Of Lua:
`luaL_ref` gives a reference that is not in use; a string nothing refers to may be collected at any time.

## 4. The proofs

`tlapm` proves, from the named assumption of each module and for every value of its constants:

| theorem | says |
|---|---|
| `AuthStoreProofs!StoreInvariant`, `SettledMeansSaved` | `QuiescentDurable`: when no change is queued the file is the table |
| `AuthStoreProofs!RecordsFiled`, `OwnersStay`, `Refinement` | a record comes to stand under another's key only by a restart with a save owed or failed; records stay with their owner; `AuthStore` implements `AccountTable` |
| `AuthStoreProofs!SavesProgress` | a save's walk always has a next step; each step, and each GUI update that starts or collects a save, leaves less to save |
| `AuthSessionProofs!SessionInvariant`, `AuthorisedOnOwnPassword`, `AnswerToAsker`, `CheckPerState3`, `LoginOfState`, `CheckOfPresent`, `FaultNeedsOrphan` | the safety properties of the dialogue, for any number of slots, logins and passwords: that the answer was about his own login and password unless the command was freed unread, and that three of the five faults need an orphan, among them |
| `AuthSessionProofs!SessionMoves` | a sound slot moves between its states in the documented ways only |
| `AuthSessionProofs!ChecksProgress`, `NewcomersProgress` | a check that waits comes nearer to its answer with each step of the thread and of the GUI hook, and nothing puts it back; the countdown of a player who joins is not stopped, set back or lost |
| `AuthRemoteProofs!RemoteInvariant`, `AlwaysSentAsGiven`, `AlwaysFaultExplained` | requests carry their own command to their own server; `remoteCommand` and the command are read amiss for one reason each; for any servers and number of commands |
| `AuthRemoteProofs!RemoteImplementsCommands` | the queue, its thread and the report implement `RemoteCommands` |
| `AuthRemoteProofs!CommandsProgress` | each step of a command's thread brings all commands that wait nearer to their report |
| `TimeoutsProofs!TimeoutsInvariant`, `AlwaysInOrder`, `AlwaysNoneMissed`, `AlwaysFunctionOfEachRecord`, `AlwaysOutputRestored` | the safety properties of the server's timeouts, `OutputRestored` for functions of any environment and whatever sets `conOutput` |
| `TimeoutsProofs!ListImplementsTimeouts` | the list with its iterator implements `Timeouts` |
| `TimeoutsProofs!AlwaysClientFunctions`, `ClientListImplementsTimeouts` | the client's records and its functions belong together; its list, too, implements `Timeouts` |
| `TimeoutsProofs!CallsProgress`, `ClientCallsProgress` | each frame and each step of a pass brings every function that is set nearer to its call, on both sides, while the process lives |
| `PacketsProofs!AlwaysGameSpared` | the game takes nothing it is to be spared of what the filter has looked at, for frames of any length |
| `PacketsProofs!AnswerCutWhole`, `AlwaysLinesWhole` | an answer of any length is cut into at most three lines that are what can be shown of it; they reach the console in order, none twice, none left out, until the filter takes an old one from behind the end of a frame |
| `PacketsProofs!VersionStaysUnderWay` | the question for the client's version and the answer are never lost on the way, until the version is known or was missed behind a short input, or the player leaves |
| `NextGameProofs!NextGameInvariant`, `AlwaysRequestHonoured`, `AlwaysCycleMapsFit`, `AlwaysFlagsSpent`, `AlwaysModeFits` | the safety properties of the next game, for all maps, lists and requests |
| `NextGameProofs!ListOfMode` | a mode has exactly one list, and on it are the maps of its section that load and fit |
| `NextGameProofs!RequestsProgress`, `CycleProgress` | two steps of a round's end take up a request; each answer of the cycle brings every map of the mode nearer, or names it |
| `HttpGetProofs!HttpInvariant`, `AlwaysRefsAccounted`, `AlwaysOwnPage` | the safety properties of the HTTP client |
| `HttpGetProofs!QueueImplementsRequests` | the queue of references implements `HttpRequests` |
| `HttpGetProofs!RequestsProgress` | each step of the thread or of the callback brings every open request nearer to its end |
| `ArchiveTransferProofs!TransferInvariant`, `AlwaysSplitAtMapEnd` | the two files, for maps, archives and chunks of any size |

Why the invariants had to be strengthened:

* *AuthStore.* `QuiescentDurable` speaks of an empty queue only. A save that a change disturbs may write anything, but the
  change leaves an entry of its own, so another save follows; with one entry left, then, the save under way has met no
  change, and what it has written is the table up to its iterator, and it is not astray
  (`LastSaveIsExact`): what it reads is a record of the table (`ReadsRecord`), filed as the others are. Only one thread runs, and there
  is an entry for it to pop (`OneSaver`).
* *AuthSession.* Nothing can be shown of one property alone: a positive answer is right because the head of the queue is
  who the thread's command is about (`HeadIsAsker`), whose command is still current (`ChecksAreCurrent`), in state 3
  because it has one check (`OneCheckInState3`). The conjunction is inductive slot by slot, once the state and the
  login agree. The thread's steps and both kinds of check keep it for sound slots; orphaned ones are allowed anything. What the answer is
  about is what the thread has asked, and that its own command or a stray one (`RequestIsCommand`); there too is that a
  thread under which `remoteCommand` changed belongs to a slot that is no longer sound.
* *AuthRemote.* A command goes to the server it was given for because nothing under way was given for another, unless the
  server was set meanwhile (`MeantForThis`); the thread of a command reads a buffer that is still there because it is
  the head of the queue, and only its own report takes that out (`ThreadOnHead`, with `QueueConsecutive`: a buffer is
  queued once). The login thread has no such place, which is where `outrun` comes in. Nothing is to be shown of the faults at 488 and 753,
  for they need no reason.
* *Timeouts.* `OutputRestored` is inductive once it speaks of the copy on the stack while a function runs: that is what was
  set in the function's environment, or an inherited one that is still there, and then the call ends the process rather than
  put it back. The list is in order, the iterator has only records behind it that are not due or were set in this
  very pass. Inserting and erasing are treated as operators on sequences with their effect on positions, and, for the
  refinements of both lists, on what lies beyond the iterator (`InsertAround`, `RemoveAround`, `FirstBeforeBeyond`): a
  record that goes in under the iterator lies beyond it exactly if its frame is not before that of its setter. The
  client may stop early because what is beyond the first record that is not due is not due either.
* *Packets.* Nothing is under way of a player who is not there (`GoneIsQuiet`), so that his joining, which sets him back to
  state 0, falls between two frames like everything else that changes his state between a look and the game's turn.
  For the lines (`LinesInv`): between two frames nothing is left of the last one, the client's game is never about to take a line, and of an absent player
  nothing is under way or remembered; then what has come and what is in the four places of the connection, taken
  together, is the answer. The operators this rests on recur: what `FlattenSeq` makes of a concatenation is shown by
  induction over a set of numbers (`SetInduction`, from the least element of a set), and `LinesOf`, which the code's
  loop runs three times at most, by what it comes to for each range of lengths (`Cut`).
* *NextGame.* `RequestHonoured` is about the end of a round; on the way there the invariant (`RoundInv`) says, for each
  place of the calls, which of the answer, the flags and the settings already agree with the request, and `ListFits`
  that the list in use was formed of maps that load, for one mode.
* *HttpGet.* `HttpIInv` adds that an ended thread has its page (or failed, or lost its string) and that no request is
  active while a callback runs.
* *ArchiveTransfer.* What the files hold follows from where the client is: in the map, with nothing cut yet and the counts
  equal, or in the archive, with `cliMapSize` back at 0 (`SideInv`); a size that was announced is the map's because the server
  prepared it so (`PreparedInv`). That two pieces written one after the other are one piece is `ChunksJoin`.

The refinement theorems map each step of the implementation to one of the abstraction or a stutter; the maps are at
the end of each module.

The theorems named `...Progress` prove of the liveness properties what can be proved here: that the steps the
specifications are fair to lead to the goal, and that no other step leads away from it. Each but the two marked below has
a rank, shown to be a natural number (`ChecksCounted`, `ReportsCounted`, `PagesCounted`, `CallsCounted`, `ClientCallsCounted`, `TurnsCounted`; for saves a pair
of them, `SavesCounted`: the changes to save, then what is left of this save), which no step makes larger, players who
join and requests that come later included, and the steps named make smaller:

| property | theorem | what gets smaller |
|---|---|---|
| `EventuallyDurable` | `SavesProgress` | changes to save, then steps of this save (while accounts do not change) |
| `CheckAnswered` | `ChecksProgress` | the check's place in the queue and, for the first, the steps its thread has left |
| `NewcomerPrompted` | `NewcomersProgress` | the countdown itself |
| `EventuallyReported` | `CommandsProgress` | the command's place in the queue and the steps of its thread (while logging in stays switched on) |
| `EventuallyCalled`, `ClientEventuallyCalled` | `CallsProgress`, `ClientCallsProgress` | frames until the function is due, then what is left of the pass |
| `CycleVisitsAll` | `CycleProgress` | answers of the cycle until it names the map (while rounds end in the same mode) |
| `RequestServed` | `RequestsProgress` (HTTP) | the reference's place in the queue and the steps of its thread |
| `RequestTaken` | `RequestsProgress` (next game) | no rank: the end of a round has two steps |
| `VersionLearned` | `VersionStaysUnderWay` | no rank: only that it is not lost; that frames are emptied stays with TLC |

They need a little more than the invariants above: that a fetch under way belongs to an active request (`FetchIsActive`),
that a pass under way has been noted as this frame's (`MadeInPass`, `ClientMade`), that a round's end comes to loading with
no request left it could have served (`NoneLeft`), and that between two frames nothing is left of the last and the client's
game is never about to take the question for the version (`AnswerInv`).

Only model-checked: that the liveness properties hold, all ten of them. Of each the part above is proved; that its fair
steps are enabled (`SomebodyMoves` and `WalkGoesOn` say of two of them that there is one to take), and the induction
over the rank under fairness, are out of the prover's reach.
Of the state and action properties the passing runs check none is left unproved.

## 5. Where the code does not do what it says

* **An answer that comes too late** (`leave_deauthorises`). `onPlayerLeave` resets the slot and leaves the check queued.
  If the answer is positive the slot becomes authorised with whoever is in it, or with nobody, and the next player
  finds it so until his join resets it. `admin.cpp` 1176 says the hook deauthorises.
* **A redirected console** (`redirect_left_so`). A timeout function that sets `conOutput` ends the process: the branch
  `util.cpp` 1047-1056 meant for it pops one value too few. It is found where it is set in the function's own
  environment or one that environment inherits from; what a line of the console sets in the server's or the client's is
  not found, for `delayedCon` has `_G`.
* **The cycle of another mode** (`cycle_follows_mode`). `onServerStart` notes the new mode as the one the list was formed
  for, which it was not; the cycle goes on with maps the mode may not have. `admin.cpp` 503 says the list is formed anew.
* **The size of another archive** (`told_map_size`). `serverTransferPrepair` sets `servArchiveSize` only for a map that has an
  archive, so after one with an archive a map without is announced as shorter than it is, and the client cuts its end off
  into a file of its own. `filesystem.cpp` 476 says that what is sent is the size of the map alone. On the client's side
  `cliMapSize` stays, likewise, when a map was not exceeded or a transfer was broken off, and cuts the next map of a server
  that announces nothing.

Not runs of their own: if the answer that comes too late is negative, two is subtracted from a state that is 0, and the
byte is 254, of which the list of states at `net.cpp` 988-996 knows nothing and which holds back neither chat nor input
(`StateAndLoginAgree` allows it in orphaned slots only); and logging in switched on while players are there leaves them in state 0, of which `net.cpp` 988 says
that it should not occur; they can neither play nor log in until they rejoin. A short input packet of a player who has
not logged in is filtered without setting `found`, of which `net.cpp` 974 says that it must always be set (`missed` is
what comes of it). `UnimodVersion` is written 010601, an octal number, which both sides do alike.

## 6. What is not modelled, and why

* Most lines under `src/` are other people's programs, kept there whole (`Libs/SDL`, `Libs/LuaJIT-2.0.3`, `Libs/zlib`,
  `Libs/lpng151`, `Libs/luasocket`, `bzip2`, ...). The mod itself is a few percent of them, and more than half of that
  are bindings.
* Components that only read and write the game's memory for scripts, draw, parse or patch: no control of their own.
* The HTTP server: one blocking request a time, nothing kept between two.
* The console's edit line and history, and `conDoCmd`: one thread and one player. Cursor, length and the ring of lines are
  arithmetic that could be modelled (section 7); `conDoCmd` only hands a line on.
* Replays: `replayInit` starts neither recording nor playing.
* Walls, tiles, sprites and units that packets change: the structures are the game's. `Packets` has these packets as one
  kind.
* A file that cannot be read when the program starts; the Lua stack of the main state; memory that is never freed: the
  code has no reaction to them, so there is nothing to state but that they happen.
* What an invalid access does to memory other than to end the process: a buffer that is overrun, or freed and used, may also
  leave the heap or the stack damaged and the program running. The models either stop there or, where the code reads what
  is freed, choose what it reads; of a damaged program nothing can be stated.
* The negative length of a chat that is too short is `AuthSession`'s (`ChatShort`); `ServerPackets`, which has the same
  packets, takes lines that are long enough. That `delayedCon` itself also gives `strncat` the NULL of an error that is no
  string is the `error` of `ServerTimeouts`, for it is a timeout's function.

## 7. What comes next

1. A rank for `VersionLearned`: the packets before the question or the answer in its frame, and the place it is in.
2. The console's edit line: the cursor stays within the text, and the history of fifty lines.
3. Walls as list operations, checked against sets.
