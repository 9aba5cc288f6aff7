# TL1 server: TLA+ models, checks and proofs

The program is a multi-threaded TL1 command server. A user connects with a Telnet
client, edits a command line, and ends a command with `;`. A server thread answers
commands of all users; each user's answers are written to the terminal by a thread of
its own, which redraws the line being edited below them. File names below are relative
to `src/src/` of the repository; `hello.c:84` is a line of it.

## Inventory

| Part | State | Operations | Interacts by |
|---|---|---|---|
| main (`hello.c:1012-1078`) | listening sockets | select, accept, `createConnection` | starts two threads per connection |
| client thread (`clientLoop`, `process_input`, the editing keys) | `input_buffer`, `raw_line_buffer`, `line_buffer`, `processingMode`, `telnetCommand`, `vt100Command`, `win_w` | greet, read, edit, complete a command, negotiate the terminal type | `line_buffer_mutex`; puts on `command_queue` and on its own `response_queue` |
| server thread (`serverLoop`) | `command_queue` | drain the queue, answer each command, recycle its struct | `command_queue_lock`/`command_queue_non_empty`; puts on the `response_queue` that `cmd->con` names |
| response thread (`rspClientLoop`) | `response_queue`, `term_buffer` | drain, write, redraw the line, recycle | `response_mutex`/`response_condition`, then `line_buffer_mutex` |
| command lists (`CommandQueue.c`) | `first`, `last`, `next` of each struct | `getCommandCreate`, `getCommand`, `putCommand` | every thread; the pool's mutex is not taken for the test |
| line editor (`hello.c:54-415, 504-597`) | raw text, shown text, cursor, window width, parse errors | insert, backspace, delete, `pre_parseInput`, cursor keys, redraw | under `line_buffer_mutex` |
| input state machine (`hello.c:612-815`) | mode and two sub-states, two byte buffers | one byte at a time | calls the editor and `processTelnetCommand` |
| terminal-type negotiation (`hello.c:429-498`) | `ask_for_terminalType`, `last_terminal_read` | ask, compare with the type before, stop | requests go through `response_queue` |
| connection life (`Connection.c`) | the whole `struct Connection`, its descriptor | `createConnection`, `freeConnection` | main, its two threads and, through the commands it has queued, the server; the response thread outlives it |
| TL1 parser (`TL1_Command.c`) | positions of a recursive descent, error stack | one function per rule of `doc/EBNF/index.html` | its error positions are highlighted by `splitLines` |
| containers (`tl_string.c`, `tl_array.c`, `tl_vector.c`) | growing buffers | append, set, compare | used by all |

What is hard here: five kinds of threads and mutexes that are taken one inside another in
three different orders; a queue test outside its mutex; condition waits in an `if`; a loop
over a text that it shortens while it runs; screen arithmetic that is right or wrong only
at the edge of the window; a state machine fed in arbitrary pieces; a structure that is
shared before it is complete and freed while threads and commands still name it.

What makes each part correct, in a sentence: *flow* - each completed command is answered
once, in order, on its own terminal, and no thread blocks for ever; *lists* - each struct
is in one place and lists are first-in first-out; *editor* - what is queued is what the
text says, and the screen shows the text and its errors; *input* - bytes are framed as Telnet and VT100
say; *negotiation* - it ends, with the type wanted if the client has it; *life* - nothing
is used before it is set up or after it is freed, but for the cases named, and who stays is
served; *parser* - it departs from the documented
grammar in the ways named and in no other. `PROJECT.json` lists the hazards at their lines.

## Modules

| Module | Says |
|---|---|
| `ResponseService` | what a user is promised: answers once, in order, on the same connection |
| `CommandFlow` | the threads, their mutexes, conditions and queues |
| `MCCommandFlow` | instances for TLC |
| `CommandFlowProofs` | proofs about it: types, locks, wake-ups, greetings, deadlock freedom, that it implements `ResponseService`, and that structs are conserved and bounded |
| `CommandLists` | what the lists are for: structs in sequences and hands |
| `CommandQueue` | the linked lists and the unlocked test, struct by struct |
| `MCCommandQueue` | its instance |
| `CommandQueueProofs` | proofs: each struct in one place, lists that end, `CommandLists` implemented |
| `CommandText` | what a text of characters means: commands, rest, as shown |
| `LineDrawing` | how a line is cut into rows and its errors highlighted, and the picture meant |
| `LineEditor` | keys, `pre_parseInput`, and the screen, composed with `CommandText` and `LineDrawing` |
| `MCLineEditor` | its instances |
| `TextLemmas` | lemmas about slices of sequences, least numbers and the modes of a text, for the proofs of the editor and the parser |
| `LineEditorProofs` | proofs about cursors, buffers, the line and the commands split off |
| `LineEditorScreen` | proofs about what is drawn: the cursor's place, the line, a command and its errors |
| `ConnectionLife` | setting a connection up, leaving, and memory and descriptors used again |
| `MCConnectionLife` | its instance |
| `ConnectionLifeProofs` | proofs: types, owners, what users see, the causes of undefined behaviour, and that mutexes exclude |
| `InputProcessor` | bytes to keys, window sizes and terminal types |
| `MCInputProcessor` | its instances: keyboards and clients |
| `InputProcessorProofs` | proofs that keys, sizes and types come out as they went in |
| `TL1Tokens` | the tokenizer |
| `TL1Rules` | the recursive descent, one operator per function of the code |
| `TL1Grammar` | the documented grammar, over characters, and the nine named departures from it |
| `TL1Parser` | a command that is edited, with the result of parsing it |
| `TL1Language` | what the parser accepts, compared with the grammar |
| `MCTL1Parser` | its instance: commands with a gap in one of their blocks |
| `TL1ParserProofs` | proofs about the tokens, the ends of commands, and the iterator in every rule |

Definitions whose comment begins with "Mutant" are plausible slips in the definition that
follows; no specification uses them. `PROJECT.json` pairs each with the property that
notices it.

### CommandFlow and the code

A place (`serverPc`, `clientPc[c]`, `rspPc[c]`) stands between two accesses to shared
state. `lineLock`, `rspLock`, `cqLock` are the mutexes a thread keeps while it takes
another; `command_pool_lock` and the queue mutexes inside `putCommand` protect bodies that
take no other lock, and are one step with their body, enabled only if the mutex is free.
A struct is abstracted to its contents; the pool, whose contents are undefined
(`CommandQueue.c:30`), to the number of its structs. A command is its connection and its
number there. One key may complete several commands (`todo`): `pre_parseInput` queues each
under the line lock. `Outstanding(c)` counts completed commands not yet answered;
`MaxOutstanding` says how far a user runs ahead. `1` is a person who waits for the answer,
more is a script or pasted text. A wait is "waiting" until a signal or, with
`SpuriousWakes`, for no reason, and then "woken" until the mutex is free; the queue is not
tested again, as in the code.

Left out: connections that close and `createConnection` in steps (`ConnectionLife` has
both), `write` and `recv` that fail or block, the window size (a connection
has reported it before it types; `LineEditor` shows what happens otherwise), the texts of
answers. How many times a terminal type is asked for is nondeterministic, up to `MaxAsks`.
The process ends when a null pointer is dereferenced (`crashed`): nothing happens then,
which is why these runs do not check for deadlock; `NoLockCycle`, `EveryCommandAnswered` and
`ServiceFairSpec` say that threads do not get stuck.

### CommandQueue and the code

`first`, `last` and `next` are the pointers. Threads call the three functions in the orders
in which the program does, described by the list each drains and the list each puts on.
`malloc` returns a struct with any link, as uninitialised memory has; a struct taken from
a list keeps its link. `CommandFlow`'s sequences are justified here: `ListsSpec` says that
the chain of each list is the sequence `CommandLists` has.

### LineEditor, LineDrawing and the code

A key is handled under `line_buffer_mutex`, so its steps are not interleaved with other
threads; `pre_parseInput` takes one step per character, and three at a `;`: parse, draw,
queue. `line` is the buffer as shown. `errors` is the error stack of the connection, by
the positions of its leaves in the order of their walk: `<<-1>>` after `errorStackInit`,
`<<>>` for PARSE_OK. What the parser says of a command is any sequence of positions, with
duplicates and in any order, so what `LineEditor` shows does not rest on `TL1Rules`; one
position behind the `;` stands for all that lie behind it.

`screen` is the terminal from the row where drawing starts: rows of cells, each a character
and whether it is inverse, and the cursor. `LineDrawing` has an operator for each function
that draws, of the same name: `addSorted_int` and `errorStack_GetPositions` give the
positions, `insertHighlight` a row of text (`from(k)` is `pos_start` in the turn for error
`k`, `cur` is `cur_err_pos`, one past the last where the code has -1), `splitLines` the full
rows with CRLF and the remainder. Every drawing begins with `clearTerminalLine`, which
erases everything below, so what is on the screen afterwards depends on the drawing only;
`clearTerminalLine` moves up `current_pos / win_w` rows, and `missed` is how far from the
prompt that ends. The escape sequences do what a VT100 does: up, down and right by so many
places, right as far as the window reaches. A row is never longer than the window, so the
terminal's wrapping, which `Write` has, makes no difference. A response is written between
two keys, on rows of its own: all texts of the server end with CRLF. A terminal is taken not
to re-wrap old text when it is resized. `splitLines` with width 0 and `moveCursor`'s
division by it end in `dead`.

`Picture` says what a line is meant to look like, without rows or loops: behind `<` the
k-th character stands at the k-th place of rows of the window's width, and is inverse if
there is an error at it.

### ConnectionLife and the code

`Accept`, `Initialise`, `MakeRecursive`, `StartRsp` and `RspStatus` are `acceptConnection`
and `createConnection` between the points where another thread can notice: the client
thread runs from line 60 on, the mutexes are there after 66-68, and the line's mutex is
initialised again, to be recursive, by 70-72. A connection is an address (`addr[u]` is the
pointer the two threads of user `u` were given), the memory at an address is its mutexes,
response queue and descriptor; `malloc` gives any address that is not in use, `accept` the
lowest descriptor. A mutex is `"raw"` until it is initialised: locking it then succeeds,
fails (the code does not look) or blocks for ever. Initialising it frees it, whoever had
it. `recv` that returns an error or the end are one (`process_read` returns 1 or 2 and
`clientLoop` leaves for both), at any moment after the user hung up, with keys still unread
or without.

`rspClientLoop` has no end. When its connection is freed it goes on sleeping on the
condition at that address; `pthread_cond_signal` wakes any thread that sleeps there, so a
response thread of a user who left serves the next user at the same address (`Waiting`
and `OwnerWaits` tell the two apart). `Signal` may miss those that slept before the
condition was initialised again. A thread that is about to use freed memory takes no step,
because nothing can be said about what it would do; `UndefinedOnlyBy` says when that happens.
The pool and the editing are `CommandFlow`'s and `LineEditor`'s. `causes` is history that no
step reads.

What the run shows, beside what the code's authors will want to know: the server survives
users who come and leave quietly, even though each leaves a thread behind. It is undefined
what it does after a user left who was not yet answered (the answer is put on a freed queue,
or on the next user's), or while main was still setting the user up, or
while the response thread was not asleep; a write after the user left raises SIGPIPE, which
nothing handles. No text of the repository says otherwise, so these are not runs that expect
a violation: the properties name the cases and say that there are no others.

In two of these cases the mutexes fail. `createConnection` starts
the client thread at `Connection.c:60`, before the line's mutex is initialised at 66 and again,
as a recursive one, at 72: a client thread that is quick enough has locked it by then, finds
it free afterwards, and edits the line unlocked (the cause `"early"`). And a connection may be
freed while a thread is inside one of its mutexes (`"inside"`).
`OneInside` says that in all other behaviours the mutexes let in one thread at a time.

### InputProcessor and the code

`ProcessInput` is one round of the loop of `process_input`; since all state is in the
connection, how bytes were cut into reads does not matter. `Text`, `Telnet` and `Vt100` are
the cases of its switch, with their states and both buffers. Keys, windows and terminal
types are bytes as the client encodes them (a 255 is doubled), so the module says whether
they come out as they went in. `unheard` and `misheard` compare the keys handled with the
keys pressed. `requests` are TERMINAL-TYPE SENDs not yet answered: their way through
the response queue is in `CommandFlow`. The buffers hold only the bytes up to their
lengths, because no comparison of the code is decided by older bytes. The branches marked
"We shouldn't land here" are not reached and left out.

### TL1Parser and the code

Each function of `TL1_Command.c` is an operator of the same name in `TL1Rules`. It takes
the tokens and the place of the iterator (the rules for values and blocks take a table of what
`infoUnitClass` or `param_value` gives at each place), and returns where the iterator is left, or the
places of the leaves it adds to the error stack, which are what the user sees
highlighted; the names of errors and the printing are left out. `TL1Parser` edits a command by
typing into a gap of it. After each key the text is parsed if a command ends in it, and
otherwise what was parsed before stays: `pre_parseInput` calls the parser at a `;` outside
quotations, with the whole line (`hello.c:227-235`). `input` is the text that was parsed
last. Memory that `textStr` reads behind a string is a nondeterministic choice.

The loops of the parser are tables: `next[k]` is where a loop at `k` goes on, 0 where it
ends, and `EndOfLoop` follows it. `SeparatedBy` is the loop of most lists,
`payload_blocks` the `do` at the end of `parse`; the character loops of `tokenize`
(`Scanned`) and `textStr` (`QuotationStop`) are written in the same way.

`TL1Grammar` is written independently of the parser, as sets of spans of the text: the
grammar of `doc/EBNF/index.html`, and nine departures from it that can be made one by one.
With none it is the documented language, with all of them (`Departures`) it is what the
parser understands, which is `DepartsAsNamed`. Each departure is needed: without any one of them
`DepartsAsNamed` is false on the texts of the run.

| Departure | Against the document, the code | `TL1_Command.c` |
|---|---|---|
| two words | refuses a command of one word: the iterator is left behind it | 665 |
| one tid word | refuses a tid of several words: it stops on the minus | 705 |
| digit first | refuses a number that begins with its point | 733 |
| value fraction | refuses `1.5` without `D'` in a value: `alphanum` is tried first | 1191 |
| plain increment | refuses `D'` in an increment | 1236 |
| prefix alone | accepts `D'` with no digit | 733 |
| chained range | accepts a range that goes on as a chain, such as `a&&a-a` | 1388 |
| empty units | accepts an empty unit of an aid, as the tests of `TestParser.c` want | 1459 |
| any general | accepts a general block of any form, and not the documented ones with commas: `general_block` is a stub | 1572 |

So `a:::a;` is refused by the first, because `parse` looks behind the colon on which the iterator
stands for another, and `1&&1-1` as a value is accepted by the seventh, because `cmp_chain` is tried from
its second `1`.

Two more are outside of what the module speaks of: symbolic names, which the code refuses
(`sym_name` leaves the iterator behind the name, 864), and quotations in which an escape is not
followed by an ordinary character (`textStr` steps over it, 600). `num_str` accepts nothing: its test for a
literal is inverted (1115, lemma `num_strFails`); plain digits are understood as `alphanum`.

## Runs

| Run | Question | Instance |
|---|---|---|
| `flow_service` | are locks, wake-ups, greetings, structs and all that is answered right, even for users who do not wait | 2 users, 2 commands each, 2 outstanding |
| `flow_live` | is every command answered, with bounded memory and no circle of waits | 1 user who waits, 3 commands, 1 request for a terminal type |
| `flow_not_starved` | is a user answered beside one who completes commands without end | 2 users who wait for each answer, the second without bound, no spurious wake-ups |
| `flow_pipelined` (violated) | is every command answered to a user who does not wait | 1 user, 2 outstanding |
| `flow_pool_race` (violated) | does the pool always give a struct | 2 users |
| `queue` | do linked lists behave as sequences | 4 threads, 4 structs, 2 queues and the pool |
| `editor` | do any keys, resizes and responses keep text, cursor, buffers, screen and queued commands right, and does the scan of a text end | texts of up to 4 of 4 characters, up to 3 errors, widths 0 to 3 |
| `editor_clears` (violated) | is the old text always cleared from the prompt | texts of up to 3, width 2 |
| `editor_no_screen` (violated) | are keys harmless before the window size is known | width 0 at first |
| `life` | what happens beside users who come and leave, and is who stays greeted and answered | 2 users, 2 addresses, 2 descriptors, 1 key each and a second one for one of them, 1 hang-up, threads that fail to start, spurious wake-ups |
| `input` | are keys, sizes and types understood, and does the negotiation end well | 16 keys, 3 sizes, 6 clients, bytes of several on the wire |
| `parser` | does the parser depart from the document as named only, and mark the right block | 12 commands with a gap for up to 4 characters |

Why the bounds suffice to be interesting. The circle of waits needs one connection and two
commands; a race on the pool needs two threads that create at once; wrong delivery needs
two connections; wrong order needs two commands of one connection on their way. Four
structs let two threads hold one each, the server two, with one in the pool. Four
characters allow a command inside a quotation, an escaped quotation mark, and two commands
completed by deleting a quotation mark; widths 2 and 3 wrap such texts, at odd and even
places, and with width 1 the prompt has a row of its own; three errors can arrive in every
order, twice, in one row and in several; the buffers start with two characters, so both grow. `PromptLen` is 1, as `init`
sets it. In `life`, two users are enough for one to get the memory, the descriptor or both of
the other, or neither; a third would only repeat it. The one hang-up (`MaxHangUps`) can be
at any moment of either user's session. Two users who both leave early were left out: each
alone already makes the behaviour undefined. `Bounded` in `MCConnectionLife` keeps the run
small in two ways. One user may type a second key, but only while nothing has gone wrong
and no thread has failed: this closes the circle of waits of `flow_pipelined`, and
`StayersServed` says nothing of a state once something has gone wrong. And a behaviour is
followed until three causes have come together. What needs a second key after something
went wrong, or one of each user, is therefore not checked; `UndefinedOnlyBy`, `OwnScreen` and
`OneInside` are proved without these bounds. Spurious wake-ups are those after the
connection was freed, as `CommandFlow` has the others.

The keys of `input` are the sequences that `process_input` names, with and without a
modifier it drops, characters that also
end sequences, and things to be ignored; no terminal is claimed to send only these. The sizes have bytes 255 and 240 (IAC and SE)
side by side in both orders; the clients offer lists of one to four types with VT100 absent, first, inside,
and in lower case. There is no bound on the number of keys: only the bytes on their way
are limited. A key that sends ESC [ and what the code does not know (Insert, a function key, xterm's arrows
with a modifier) is not among them:
the code then drops text until a letter it knows (`hello.c:755-787`), and nothing in the
repository says what it should do.

`WantedFound` is about clients none of whose types is the beginning of the one before it: the
server ends with the first VT100 of the list, or else with its last type. It says less than the
comments at `hello.c:488-490` mean, which the code does not keep in two ways. Of ANSI-BBS, ANSI,
VT100 it ends with ANSI, because `compareString` (`tl_string.c:96`) compares only as far as the
new type goes and takes ANSI for ANSI-BBS come again, the end of the list. And the
request that line 490 announces, which would get the first type of the list, is not made:
line 491 sets `ask_for_terminalType` to 0, and then `askForTerminalType` does nothing (431).

The gaps of `parser` are in the command code, the tid, the aid (with the keys of lists,
chains, ranges, symbolic and keyed numbers), after ranges with an increment, in the ctag and
in payload blocks, with plain and prefixed numbers. Four characters complete each form begun
before the gap and spoil it in every way. `DepartsAsNamed` is stated for texts without escapes
and without the characters of symbolic names and keyed numbers, `ErrorsInBlock` without
symbolic names; the other properties for all.

Connections are symmetric in `flow_service`, structs in `queue`, users and addresses in
`life`; none of these runs has a liveness property. `StayersServed` is stated over states in which no thread can
go on, which needs no fairness. It excepts the circle of waits of `flow_pipelined`, which a user
who does not wait closes here too and which stops everybody: it says that there is no other
way to be left unserved.

In `flow_not_starved` the second user completes commands without end: when the last is
answered, `Renumber` in `MCCommandFlow` starts its numbers again, so that an endless
behaviour has finitely many states; no step depends on more than the difference and the order
of the numbers. Both users wait for each answer. A second user who does not stops the server,
as `flow_pipelined` shows, and then nobody is answered.

### What the violated runs show

- `flow_pipelined`: the client holds the line and waits for the command queue; the server
  holds the command queue and waits for the response queue; the response thread holds the
  response queue and waits for the line. It takes two commands on their way, and then the
  server thread is stuck for all users.
- `flow_pool_race`: `getCommandCreate` tests the pool without its mutex and does not
  repeat the test (`CommandQueue.c:34-42`).
- `editor_clears`: `clearTerminalLine` computes the cursor's row without the prompt
  (`hello.c:65`), all other code with it. For a plain insertion the two agree,
  because the cursor it uses is already the new one; for a response at the edge
  of the window, among others, they do not.
- `editor_no_screen`: before the first window size, a printable character never returns
  from `splitLines`, and an up or down arrow divides by zero.

### Fairness

`CommandFlow!FairSpec` is strong fairness of each thread: a thread that can go on again and
again does. Strong rather than weak because a mutex that others take and release is free
again and again but not always; it is the assumption that the scheduler and the mutexes
starve nobody. POSIX leaves that to the implementation, and the program is built on more than
one (the Makefile names none, a stack dump under `test/` is from MSYS2), so it is an assumption: without it no
command need ever be answered. The user (`ClientKey`, `ClientAsk`), new connections and spurious wake-ups are
not fair; in `flow_not_starved` neither is `Renumber`. `InputProcessor!FairSpec` is weak fairness of `ProcessInput`, the client thread, and
of `ClientAnswers`: a client that has agreed to tell its type answers.

## Proofs

Each theorem below holds for every value of the constants its module's assumption allows:
any set of connections, users, addresses, descriptors, threads or structs, texts of any
length, any bound. The runs show the same properties on small instances.

| Theorem | States | Rests on |
|---|---|---|
| **`CommandFlowProofs`** | | |
| `TypeCorrect` | `Spec => []TypeOK` | `TypeInv` |
| `LocksHeld` | `Spec => []LockDiscipline` | `LockInv`, `TypeInv` |
| `WakeupsKept` | `Spec => []NoLostWakeup` | `LockInv` |
| `GreetedFirst` | `Spec => []GreetingFirst` | `GreetInv` |
| `OneCommandOnItsWay` | `MaxOutstanding = 1 => (Spec => []OneOnItsWay)` | `OneInv` |
| `NoDeadlock` | `MaxOutstanding = 1 => (Spec => []NoLockCycle)` | `OneInv`, `LockInv` |
| `ImplementsService` | `Spec => ServiceSpec` | `OrderInv` |
| `StructsKept` | `Spec => []StructsConserved` | `StructsInv` |
| `StructsWithinBound` | `Spec => []StructsBounded` | `RoomInv`, `GreetInv`, `StructsKept` |
| **`CommandQueueProofs`** | | |
| `QueueTypeCorrect` | `Spec => []TypeOK` | `PlaceInv` |
| `QueueListsEnd` | `Spec => []ListsEnd` | `QueueInv` |
| `QueueOnePlaceEach` | `Spec => []OnePlaceEach` | `QueueInv` |
| `ImplementsLists` | `Spec => ListsSpec` | `QueueInv` |
| **`LineEditorProofs`** | | |
| `CursorKept` | `Spec => []CursorInRange` | `BufferInv` |
| `BuffersKept` | `Spec => []BuffersFit` | `BufferInv` |
| `LineKept` | `Spec => []LineShown` | `ScanInv` |
| `ScanEnds` | `Spec => ScanShrinks` | `BufferInv` |
| `SplitKept` | `Spec => []SplitsAsMeant` | `SplitInv`, `ScanInv` |
| **`LineEditorScreen`** | | |
| `CursorDrawn` | `Spec => []CursorInPlace` | `ScreenInv`, `BufferInv` |
| `LineOnScreen` | `Spec => []LineDrawn` | `ScreenInv`, `BufferInv` |
| `CommandOnScreen` | `Spec => []CommandDrawn` | `ScreenInv`, `ErrorsInv` |
| `EditorTypeCorrect` | `Spec => []TypeOK` | `OtherTypes`, `ScreenInv`, `ErrorsInv`, `BufferInv` |
| **`ConnectionLifeProofs`** | | |
| `LifeTypeCorrect` | `Spec => []TypeOK` | `TypeInv` |
| `ScreensOwned` | `Spec => []OwnScreen` | `CalmInv`, `OwnerInv` |
| `UndefinedHasCause` | `Spec => []UndefinedOnlyBy` | `HastyInv`, `AstirInv`, `CalmInv`, `RawInv` |
| `MutualExclusion` | `Spec => []OneInside` | `MutexInv`, `OwnerInv` |
| **`InputProcessorProofs`** | | |
| `KeysHeard` | `Spec => []KeysUnderstood` | `KeysInv`, `Offering` |
| `WindowKept` | `Spec => []WindowKnown` | `WindowInv`, `Offering` |
| `TypeFound` | `Spec => []WantedFound` | `AsksInv`, `Offering` |
| `InputTypeCorrect` | `Spec => []TypeOK` | `WindowInv`, `KeysInv`, `AsksInv`, `Flags` |
| **`TL1ParserProofs`** | | |
| `TokensCoverText` | `Spec => []TokensTile` | `ScanInv`, `TextInv` |
| `EndsAgree` | `Spec => []SemicolonsAgree` | `ScanInv`, `TextInv` |
| `ParserTypeCorrect` | `Spec => []TypeOK` | `Vector`, `Good`, `TextInv`, `ParsedInv` |

### The arguments

*The locks* (`CommandFlowProofs`). `LockInv` adds to the locks what the queues must be while
a thread sleeps; `GreetInv` says where the greeting is before it is written and that
nothing precedes it in the response queue; `OneInv` says how many of the places a command can be in
are taken, and counts them against `issued - Len(answers)`. Deadlock freedom does not
follow from the locks alone (`flow_pipelined` is a counterexample): in a circle the client
would be about to queue a command of `c` while the server is about to answer one of
`c`, and these are two commands on their way, which `OneInv` excludes. Every circle
must contain these two threads, because the only waits of a response thread and of the
server lead to them.

*The service* (`CommandFlowProofs`). A command of `c` with number `k` can be in the command queue,
with the server or in the response queue of `c`. `OrderInv` says that exactly the commands
handed over and not yet answered are in one of these places, that those further on are
older, and that within a queue the older ones come first. So the response that is
written is that of the command after the last one answered, which is what the
service may do; every other step of a thread is a stutter of it or completes commands.

*The structs* (`CommandFlowProofs`). `StructsInv` is conservation itself with a finite
`InUse`: each action adds or removes one element, moves one, or none; the lemmas say what
that does to the cardinality of the five places. The bound is a count per connection. `RoomInv`: the messages of
`c` on their way, or still to be handed over by its client thread, are not more
than its greeting if it was not written, its requests, and its commands without an answer. The places in use are
then a finite union of sets no larger than that (`SizeOfFamily`), and malloc runs only when
the pool is empty, so that all that was allocated is in use.

*The lists* (`CommandQueueProofs`). `QueueInv` says that there is an arrangement: a function
from lists to sequences, and of hands to structs, in which nothing occurs
twice, where the links of each list follow its sequence and `last` is its last element. `next` of a struct in a hand may
be anything, as in the code. A step advances one arrangement to another, and the
arrangement is the state of `CommandLists`. The unlocked test of the pool costs no struct
its place: a thread that finds the pool empty after all has none, as `Take` happens only
when there is one (otherwise the program crashes, which is `flow_pool_race`).
`Chain`, which follows the links, is that arrangement because no walk can be longer than the list (`LengthBound`, `WalkFinds`).

*The text* (`LineEditorProofs`). `BufferInv` relates lengths, cursors and buffers in
each phase of a key. `ScanInv`: while `pre_parseInput` is at `i`, its mode
is what the whole text means at `i`, the line is the shown text as far as `i`, and no command ends before
`i`. `SplitInv`: there is a place `c` in the text as edited such that the commands queued are those that end
up to `c` and the raw text is the rest. It depends on a fact that is easily taken for
granted: a command ends outside quotations, so the rest of a text has the same modes
as a text of its own (`RestModes`); then the commands of a rest are those of the whole that are
still to come (`RestOfRest`). `Modes` is a recursive function; what it is at each position is
shown at the least position where it could fail.

*The screen* (`LineEditorScreen`). `insertHighlight` writes a row in as many parts as it has
errors and one more. Each part is a slice of the line's cells with its errors inverse
(`PlainIsSlice`, `Highlight`), and slices that meet join (`FlattenSlices`), if each
turn begins where the one before ended. That is so because the positions are sorted and, as
`addSorted_int` drops duplicates, each there once (`AddSorted`, `Positions`): the next error
(`Reached`) is the first that is not before the place where drawing goes on. So a row is the slice of the
line that belongs to it (`LayRow`). The loop over full rows keeps `RowsDrawn`, shown at the
least row where it could fail (`RowsArePicture`), and `splitLines` leaves `Picture` with
the cursor behind its last cell (`LinesSplit`). `ScreenInv`: between
two keys the cursor stands at `pos`, so that movements, which start from there, end where
`CursorInPlace` says (`MovedTo`), and while a command waits to be queued its picture is on the screen.
`ErrorsInv` says what `errors` is in each phase, so that a finished line is never drawn with the errors of a
command.

*Connections* (`ConnectionLifeProofs`). `OwnerInv`: an address
that is owned is live, has one owner, and an open descriptor leads to it.
`HastyInv` and `AstirInv`: main's connection and those of the response threads that are not asleep
have not been freed, until one of them is. `RawInv`: a mutex is raw only while main is
setting its connection up. `CalmInv`, as long as nobody
left with work outstanding: each command of a user is in one place or answered, points to
the user's own connection, and who has hung up has nothing on its way; so memory that is
used again has no message for its last owner. `MutexInv`: a mutex is held exactly while one thread is inside; it
is not touched before main has initialised it, and nobody is inside when a connection is
freed, unless the causes `"early"` and `"inside"` say so. This does not need anybody to be calm:
a command of a user who left may reach the next user at the same address, but it comes through the mutex.

*Bytes* (`InputProcessorProofs`). `ProcessInput` is first shown to be a machine over bytes
(`State`, `After`, `ReadsOne`): where it is in a sequence, and what it has collected of it.
The difficulty is that the bytes of several keys, sizes and answers are on the wire at
once, and nothing in them says where one ends. `Follows(s, st)` says that the wire is the
bytes of the steps `st` that lead from the state `s` to the end of all sequences; the invariants say what
those steps will do. `KeysInv`: they will hear exactly the keys of `unheard`, in their order.
`WindowInv`: the last size among them is the client's. `AsksInv`: the negotiation has not
begun, or the client's WILL, the server's request or the client's answer is under way, once, or it is
over. For the client's steps there is a lemma for each message: it is a path from text to
text that does nothing but, at most once and with its last byte, what it is meant to do
(`KeyPath`, `LoudSize`, `LoudWill`, `LoudType`), so that it can be put behind what is on
the wire. For `ProcessInput`, the first step is taken off (`Popped`).

*Tokens* (`TL1ParserProofs`). `ScanInv` says what the loop of `tokenize` has after `n`
characters: tokens that tile the text up to `start`, words and operators in turn; its state
is the editor's mode there; and the semicolons among the tokens are the ends of commands so
far. While the loop steps over an operator it is plain and there is no quotation mark, and
the one operator with a semicolon in it is the semicolon: so the two state machines cannot
come apart there. `ScanInv` holds for all `n` because it would hold at the least `n` at which
it failed (`AllScanned`).

*The descent* (`TL1ParserProofs`). The parser reads the token at its iterator, and the one
behind it, without a test. What keeps it in the vector is that a command ends in the text.
`Vector(v, m, P)`: words (EMPTY, LITERAL) stand at odd places and operators at even
ones; the one at `m` is the semicolon (or EOF); positions up to `m`, and those of the
characters of literals, are in `P`. `Good(r, i, m, P)` is what a rule that starts at `i` returns:
errors at places in `P`, at least one, or an iterator between `i` and `m`. No rule goes behind `m`,
because it goes on only behind a word or an operator that it knows, and it knows
neither the semicolon nor EOF (`StepOver`). Loops only go forward, so they end (`LoopEnds`,
again by a least number), and where they end is `Good` if each turn is
(`SeparatedByGood`). There is a lemma for each rule, from `identifierGood` up to `parseGood`;
a table of the results of a rule is a `Table` if each of them is `Good`.
`TokensVector` joins the two parts: a text in which a command ends has such a vector.

Each step lemma has one step for each action. The inductive invariants were model-checked before they
were proved: `OrderInv` (42 275 states of one connection, and a million of two),
`RoomInv` (96 081 states of one connection, and twelve million of two), the invariants of
`ConnectionLife` (the 1 364 069 states of `life`), of `CommandQueue` (the 13 333
of `queue`), of `LineEditor` (the 190 205 of `editor`) and of `InputProcessor` (the
68 992 of `input`).

### Assumptions

`FlowAssumption`, `QueueAssumption`, `EditorAssumption`, `LifeAssumption`, `InputAssumption` and
`ParserAssumption` are the only ones. The first four
say which constants are numbers or Booleans, and that the model values for "none" are not among the
others. Three go further: `PromptLen = 1`, because the prompt is `<` and `init` sets its
length to 1 (`hello.c:41`); `IsFiniteSet(Connections)`, because a process has
finitely many sockets (only `StructsWithinBound` needs it), and
`IsFiniteSet(Nodes)`, because memory is finite (`Chain` stops after as many
steps as there are structs). `NoDeadlock` and `OneCommandOnItsWay` have the hypothesis
`MaxOutstanding = 1`: users who wait, and both are false without it.

`InputAssumption` says what a Telnet client and its terminal send, and the theorems hold
for every such client. A key is a printable character, Backspace, Delete, or a
sequence that `processVT100Command` knows, with any parameters that `process_input` drops
in between. What means nothing here is: other control characters, Alt with a character,
editing keys with a modifier, and Telnet commands about other options, or broken off,
not longer than `Longest`, a constant of any size. Sizes are pairs of 16-bit words; the list of types a client offers is not
empty, and a name has at least one byte, none of them IAC or 0, and with its frame no more than `Longest`.
The code has no such limit: `telnetCommand` has 30 bytes and `APPEND_TO_TELNET_COMMAND`
(`hello.c:599`) does not look, so that for the program `Longest` is 29 at most. `InputTypeCorrect`
therefore proves no safety against long commands; it proves that the buffers start
anew with every command, so that no sequence of short ones fills them.
Outside of it are Insert and the like (see `input` above), and clients that send more than the
buffer holds.

`ParserAssumption` says that the frames are texts of characters (`Chars`, any set) in which a
command ends without anything typed into them, so that there is something parsed at
first. Whatever is typed, keys are any of `Chars` and a quotation mark may undo the end.

### Only model-checked

- Liveness: `EveryCommandAnswered`, `NotStarved`, `ServiceFairSpec` and
  `NegotiationEnds`. The prover has no rule for fairness here, nor for `ENABLED`, which
  `StayersServed` uses.
- `DepartsAsNamed` of `TL1Language` and `ErrorsInBlock` of `TL1Parser`. Each says what the whole descent
  computes, compared with an independent definition of the same language
  (`DepartsAsNamed`) or with itself on another text (`ErrorsInBlock`); that is an induction over texts and
  grammar, not a consequence of an invariant. `TL1Grammar` also has spans of a text as sets that only an enumeration evaluates.

## Plan

1. Done: `CommandFlow` with `ResponseService`, its runs and proofs; `CommandQueue` with
   `CommandLists`; `LineEditor` with `CommandText`.
2. Done: `InputProcessor`, with the negotiation of the terminal type.
3. Done: `ConnectionLife`; `TL1Parser`; `LineDrawing` in `LineEditor`.
4. Done: proofs of the service and the structs of `CommandFlow`, of `CommandQueue` and its
   refinement, of the text of `LineEditor`, and of `ConnectionLife`.
5. Done: proofs of `InputProcessor`, for any keyboard and client, and of what `LineEditor`
   draws, for any text, width and errors.
6. Done: proofs of the tokenizer and of the iterator in `TL1Parser`, for any text in which a
   command ends.
7. Open: that the parser accepts exactly what `TL1Grammar` says, for any text.

## Not modelled

- How `tl_string.c`, `tl_array.c`, `tl_vector.c` and `Command.c` grow their buffers: each is
  used by one thread at a time, sequentially, and no property of a component depends on it.
  Memory that is never returned (the threads and buffers of a connection that was closed) is
  not counted.
- What RTRV-SYS-ATTR answers while the client thread changes the window or the terminal
  type (`hello.c:942`): the texts of answers are abstracted, and a mixture of old and new is
  all that can be told apart.
- `socket`, `bind`, `listen` and their fatal errors, logging, the layout of texts: I/O, no
  state that matters.
- `requestTerminalAutoWrap`, `addConnection` and `free_resources` (never called or never
  reached), the vendored test framework.
