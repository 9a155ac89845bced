# A verification of boilerplate_ts

TLA+ models of the concurrent core of this repository, model-checked with TLC,
and theorems about them that the TLA+ proof system (TLAPS) checks. Paths are
relative to the root of the repository.

## 1. The system

A modular web application: a Vue frontend (`monolith`), gateways that speak
HTTP and WebSocket with it, services that own the database tables and are
called by the gateways over HTTP, and libraries shared by all of them. Every
gateway and service is a Node.js process, or a cluster of worker processes
(`libs/ProcessCluster`), on one MySQL, MariaDB or PostgreSQL database
reached through Sequelize.

| Part | State | Operations | What is hard |
|---|---|---|---|
| `services/chat`, rooms | `chat_rooms`, `chat_room_members` | create, update, delete, leave, check access | chains of statements without a transaction; two people leaving at once; failures between two statements |
| `services/chat`, messages | `chat_messages`, `chat_message_files` | send, update, delete, delete one file | checks after writes; files deleted meanwhile by another service |
| `gateways/files` | `stored_files`, `stored_file_folders`, `stored_documents` | create, move, delete; visibility; archives | a tree without foreign keys, walked one SELECT at a time |
| `services/users` | `users`, `roles`, `user_roles`, `role_permissions` | users, roles, the transfer of the superadministrator | one transactional operation among many that are not |
| `gateways/authorization` | `user_sessions`, signed tokens | login, second factor, revocation | claims fixed at login; roles read before the session exists |
| `services/notifications` | notifications, challenges, MAX bot | link, verify, configure the bot | two orders (table and running bot); one-time codes |
| `services/log-collector`, `libs/LogCollectorSocketServer` | log rows, connections, pending metrics requests | authenticate, store, ask for metrics | answers against timeouts; events that nothing orders |
| `libs/Logger` | queue, socket, attempts | enqueue, connect, retry, give up | bounded queue, half-open connections, a permanent stop |
| `libs/ProcessCluster` | workers, restart window | fork, restart, shut down | exits that cross a shutdown |
| `gateways/chat-realtime`, `libs/WebSocketServer` | sockets, channels | join, leave, emit | channels against memberships |
| `libs/HTTPServer` | requests, uploads | parse, route, send | clean-up of uploads still being written; cookies of late answers |
| `services/database-migration` | schema, `database_migrations` | migrate, seed | DDL that commits by itself; two runners |
| `monolith`, documents | document, editor, dirty flag, timer | load, edit, save, finalise, attach | edits during a save, answers for a document that was left |
| `monolith`, chat and files | stores, lists being loaded, socket | show, change, follow events | answers and events out of order; lists read before a change |
| `monolith`, users and roles | store, selections, forms | list, change, follow answers | answers of changes next to lists that are older or newer |
| `monolith`, sessions | cookies, store and guard of each tab | sign in, check, sign out | late answers, several tabs, other devices |
| `scripts/project-runner` | tabs of the terminal, their files | start, watch, stop | processes known by files only |
| `gateways/public`, `libs/Config`, `models`, ... | none over time | forwarding, start-up | nothing for a model checker |

The gateways call the services by HTTP (`libs/MicroServiceHTTPClient`); the
services do not call one another, except that a login asks the notifications
service about a second factor. What couples them is the database: the chat
service reads `stored_files` that the files gateway deletes, the authorization
gateway writes the `user_sessions` that the users service revokes.

**What makes it hard.** Only `transferSuperadministrator` (and the migrations and seeds)
use a transaction. Every other method is a chain of promises, one SQL statement
at a time; between two of them any other request may run, in the same process
or in another worker. Checks are therefore made on rows that may have changed
when the write that relies on them is made, and a failure between two
statements leaves the first ones done. The `hazards` of `PROJECT.json` list
where this (and the rest) bites.

## 2. How the code is modelled

The modules share one shape.

* The variables are the tables, reduced to the columns the properties need, and
  the state of processes and browser pages.
* A request in progress is a slot (`req[p]`, `chatRequest[r]`, `lists[l]`, ...) that
  holds its next step and whatever has been read and will still be used. **One
  SQL statement, one call to another process or one callback is one action.**
  The checks a method makes on a row are guards of the action that reads it.
  Where the statements of a service are the subject of another module, a
  request is served in one step: `ChatClient` relies on `ChatRooms` and
  `ChatMessages`, `FileViews` on `FileFolders` and `FileAccess`.
* A rejected request frees its slot; what it has written stays. A statement the
  database refuses, a lost connection or a dying worker is an action
  (`FailRequest`, `RequestFails`, `AnswerLost`, ...) that may come between any two.
* Sequelize writes the columns that changed with respect to the instance that
  was read, by primary key (deleted or not): the models do the same. Deletion is
  soft (`paranoid` models): a row becomes invisible to queries and keeps its
  unique keys. A bulk INSERT is all or nothing, refused by a unique key.
  Statements sent together with `Promise.all` take effect in any order.
* What the code does not promise at every moment, a property excepts **by
  name**: a history variable records exactly the situation that can spoil it,
  and the property says that nothing else can. `PROJECT.json` has these
  situations as hazards or findings.
* A definition whose comment starts with "Defect" is a plausible mistake
  in the code beside it. `PROJECT.json` uses it to show that a property notices
  the mistake; it is part of no specification.

| Module | Models | Main source |
|---|---|---|
| `RoomPolicy` | abstract life of a room: opened, seated, left, orphaned, regrouped, renamed, archived, in one step each | `docs/chat-room-lifecycle-policy.md` as far as the code keeps it |
| `ChatRooms`, `ChatRoomsProofs` | rooms and members, statement by statement | `services/chat/src/services/ChatService.ts` |
| `RoomAccess` | `ChatRooms` with the access check that precedes messages and channels | `ChatService.assertRoomAccess` |
| `ChatMessages`, `ChatMessagesProofs` | messages, attachments, deletion of stored files | `ChatService.ts`, `gateways/files/src/services/FileStorageService.ts` |
| `ChatClient` | a group as a member sees it: socket, channel, view | `gateways/chat-realtime`, `monolith/src/views/chat` |
| `FileFolders`, `MCFileFolders`, `FileFoldersProofs` | the folder tree and what is in it | `FileStorageService.ts`, `FileAccessPolicy.ts` |
| `FileAccess` | who may read a file; archives | `FileAccessPolicy.ts`, `FileArchiveService.ts` |
| `Uploads` | a multipart request, its files and rows | `libs/HTTPServer/RequestBodyParser.ts`, `FilesController.ts` |
| `FileViews` | the lists of files in a browser | `FilesController.ts`, `monolith/src/views/files/FilesView.vue` |
| `DocumentEditor` | a document, its editor and autosave | `DocumentEditorView.vue`, `useDocumentAutosave.ts`, `FileStorageService.ts` |
| `UserRoles`, `MCUserRoles`, `UserRolesProofs` | users, roles, links, transfer, login | `services/users/src/services`, `gateways/authorization/src/services` |
| `Administration`, `MCAdministration` | permissions of roles; the page of users and roles | `RoleService.ts`, `monolith/src/views/users` |
| `Sessions` | sessions, cookies, tabs, the router guard | `gateways/authorization`, `monolith/src/application/router` |
| `Notifications` | the MAX bot, links, one-time codes | `services/notifications/src/services` |
| `DatabaseInit` | setup, migrations, seeds, grants | `services/database-migration/src/services` |
| `LogCollectorClient` | the queue of log lines and the connection to the collector | `libs/Logger/index.ts` |
| `LogQueue` | abstract queue of log lines: kept, written together, lost for newer ones or for good | what `libs/Logger/index.ts` promises to who logs |
| `PackageStatus` | whether a package is up, as known and shown | `libs/LogCollectorSocketServer`, `SystemMetricsView.vue` |
| `ProcessCluster` | workers, restarts, shutdown | `libs/ProcessCluster/index.ts` |
| `ProcessRunner` | tabs of Windows Terminal | `scripts/project-runner/process-runner.js` |
| `MCServices`, `MCClients`, `MCProcesses` | put several of these into one run, see section 3 | |
| `ServicesProofs` | theorems about `Uploads`, `FileAccess`, `Sessions` and `LogCollectorClient` | |
| `Null` | the value for what is not there, shared by modules of one run | |
| `ClientsProofs` | theorems about `ChatClient`, `DocumentEditor` and `FileViews` | |
| `AdministrationProofs` | theorems about `Administration` | |
| `ProcessesProofs` | theorems about `ProcessCluster`, `ProcessRunner`, `PackageStatus`, `DatabaseInit`, `Notifications` | |

`PROJECT.json` ("map") gives the source lines of each definition.

### ChatRooms

`room[r]` is the row of `chat_rooms`, `leftAt[r][u]` that column of the row of
user `u` in `chat_room_members` (`NoRow` when there is none, `Null` for an
active member). `createRoom` inserts the room and then its members;
`updateRoom` writes the title, reads the member rows, rewrites them one by one
and inserts the missing ones; `deleteRoom` empties the group and then archives
it; `leaveRoom` finds the row, writes it, and for a private room counts who is
left and closes it. A room can be named in a request only when it has members
or is public (`Known`): its uid is a random UUID that nobody has before
`createRoom` answers. `interrupted` is a history variable: the rooms
whose closing was begun and lost to a failure.

Two promises are excepted by name in the invariants: a group is without its
owner while `deleteRoom` is between its two statements (or has failed there), and
an empty private room is open while a `leaveRoom` is counting (or has failed there).

### RoomAccess

`assertRoomAccess` is asked before a message is sent or listed, before one is changed or
deleted, and before a socket joins a channel. It is two SELECTs: the room, which
has to be active, and, unless it is public, the member row. `access[u]` is a check
in progress for user `u`; every step of `ChatRooms` may come between the two, and between
the second and what the caller does with the answer. `overlapped` is a history variable:
the rooms that were updated while they were being deleted.

Only the two SELECTs are a promise. That a message is inserted by somebody who has left since
the check is possible, and nothing in the code or its documents rules it out.

### ChatMessages

`attached` is the set of live rows of `chat_message_files`, each with the
request that inserted it, so that the same file can be attached twice (the
table has no unique key). `OldMessages` were sent before the behaviour begins,
with every content that the code accepts. `assertMessageFilesOwnedByUser` sends one
SELECT per file with `Promise.all`: `CheckFiles` and `PrecheckFiles` check one file each,
in any order, the slot keeps those `checked` so far, and the first that finds nothing
rejects the request. `marred` and `exposed` are history variables: the messages on which
a request was rejected half-way, failed, or overlapped another one; and the files that
had passed their own check in a message (`ToAttach`) and their count in a deletion
(`Deleting`) at the same time, whether or not the other files had been checked.

### ChatClient

One group, its owner and one member with a browser. `chatRequest[r]` goes through
`ChatSocketController`: it is served by the service, then announced to the
channel, then acknowledged. `inbox` holds answers and events in the order they
were sent on the socket; `chatLoad[l]` is a list of messages read by HTTP, which
nothing orders with them. `joined` is the channel, `room.member` the database.
`chatView` is the store of the chat with what `ChatView` shows; the message being sent is
the view's own and forgotten when the view is left. The messages are loaded by a watcher of
the active room that stops with the view: `Activate` loads them if the view is mounted,
and otherwise nothing ever will, not even the return to it. `putOut` (the owner
removed a member whose socket stays joined), `strayed` (a socket joined after
its user had left, or was joined when a leave came that an earlier, lost connection had
asked for: `leaveRoom` takes out the socket that asked) and `crossed` (a lost connection, a load that crossed a change,
events missed or the room opened while the view was away, overlapping requests on one
message or on the room) name the exceptions.

### FileFolders

`folder[f]` and `item[x]` are rows with the place they are in; files and
documents are both items. The walk of `isFolderDescendant` is one action per
folder, and `assertFolderIsEmpty` counts its tables in any order. Who may
manage a folder is left out: such a check rejects a request before it writes.
`overlaps` records that two moves, or a deletion and something put in
the folder, have overlapped.

### FileAccess

`canReadFile` looks at the file, then at one folder after another on the way
up, while `ChangeFolder` and `ChangeFile` move, publish and hide them. Archives
are created (each file checked in turn, ZIP and metadata written), age, are
cleaned, downloaded and confirmed, with the file system calls of
`FileArchiveService` as actions. `history[r]` holds what was public, with
all its folders, at some moment of the request, and how many changes it met.

### Uploads

`part[p]` is the promise of `writeUploadedFile`, `content` the files on disk,
`written` the list the parser cleans up, `create[p]` the promise of
`FileStorageService.create`, `rows` the table. The first error completes the
request and unlinks what is on the list; the parts that are still being opened
or written go on. `late` names the files that come after the clean-up.

### FileViews

The view of one owner's files, looked at by the owner, a superadministrator or
another user: navigation, lists (three tables read one after the other),
creation, renaming, deletion, `runLimited` over a selection, downloads of it, and the
events that make the view load again after a delay. An update is two statements:
`FindsRow` reads the instance, `PerformsCall` writes the columns that differ from it
(`Written`) and answers the instance with the columns asked for (`AnswerOf`), so that a
column somebody else changed in between is stale in the answer. `missed` says that a list could
not be loaded since the view last asked for one: the message of the view would not do, because
`bulkDownloadSelected` (`Downloads`) clears it and loads nothing. `apart` names what
can spoil the view: an answer that overtook a newer one or came for an address that was
left, an answer of a change that met a list being loaded or that is not what is kept, a
lost event, and changes of documents by others, for which the gateway passes no event on.

### DocumentEditor

`row[d]` is the row of `stored_documents`, `document` and `editor` the state of
the view, `timer` that of the autosave. A save reads the row, writes it, and is
answered; `SaveAnswered` replaces the document in the view and marks it clean,
as the composable does. `redated` is set when `finalizedAt` of a row moves.
`docCrossed` names overlapping saves, changes while a document is being
loaded, documents left unsaved, failures and late answers.

### UserRoles

`link[u][r]` is the row of `user_roles` (none, live, deleted). `updateUserRoles`
reads all links, then writes the removed, restored and new ones in any order.
`transferSuperadministrator` is a transaction of three steps: `LockRows` begins the
SELECT ... FOR UPDATE, `WriteRows` has its answer and sends the writes, the UPDATE of the
sessions among them (`ended` are those it meets), `CommitTransfer` makes all of it visible.
Between the last two, other writers of the rows in `Held` wait. With `Postgres = FALSE` the
SELECT sees what is committed when the lock is granted, and gap locks make the INSERT of a
session of a user concerned wait for the commit. With `Postgres = TRUE` (READ COMMITTED) the
SELECT sees the rows that existed when it began, and a session inserted between the UPDATE of
the sessions and the commit stays: `LoginOverlap` records it. `login` reads the roles,
waits for the notifications service, then inserts the session. `overlaps`
records the four kinds of overlap that the properties except.

### Administration

`link[r][k]` is the row of `role_permissions`; `updateRolePermissionLinks`
deletes, restores and inserts in parallel (`DropsLinks`, `RestoresLink`,
`InsertsLink`) from links it has read. The page has the store of roles and
users, the panel of roles with its selections, the forms, and the lists it
loads; another administrator changes the same rows. `stale` names the parts of
the store that may be old, `sure[r]` the permissions that the last lone update of
a role asked for.

### Sessions

One user with one browser of several tabs, and other devices. A request
carries the cookie of the moment it is sent; the cookies of its answer are
applied when it arrives. A 401 clears both cookies (`CookieAfter`), a login sets
them; `Opens` and `Navigates` are the router guard with the time of its last
check. The states of a tab are its route, the user in its store and the list of
sessions it shows.

### Notifications

`configured` is the stored token, `bot` the one in `MaxBotService`: saving and
activating are two steps of `updateMaxBot`. Codes are rows of
`notification_challenges` with purpose, attempts and consumption; a login goes from the
challenge to the session. `botCrossed` and `raced` name two updates of
the bot, or two answers to a code, at the same time.

### DatabaseInit

Each command is a program of steps, each migration a sequence of statements of
three kinds: DDL or not, and whether it can be run twice. On PostgreSQL a
failure undoes the transaction, on MySQL every DDL statement commits what
precedes it, also one that fails. `Drop` ends the connections to the database on
PostgreSQL: a transaction under way is undone and its command fails, the others connect anew
for their next statement. On MySQL it ends none and waits for transactions that have used a table
(metadata locks): a `migrate` goes on in the database created next, with the migrations it
had found pending in the one before (`old`). `listed` is the table of migrations, which such
a command may find missing. `torn` names migrations that failed with a part
committed, `strayed` those that a command wrote in after it outlived a drop,
`reseeded` that the seed was run after a transfer.

### LogCollectorClient

One process, one event loop: an action is one callback, run to its end. A
socket is free, connecting, open, failed (its attempt ended) or ending (it was
open and is not writable any more); the last two wait for `close`. What is hard is
that between `ending` and `close` other callbacks run: a record that is logged
there finds nothing writable and begins a new attempt, and the `close` of the old
socket then resets `connecting` under it. From that moment (`crossed`) there may be
two attempts, and two connections, at once. `sent` is the history of lines written,
to whichever socket. `LogQueue` is the view of who logs: it knows neither sockets nor
attempts, `waiting` is what the queue holds and `written` what was sent. The authentication and lifecycle lines, which the
`connect` handler puts first and writes at once, are left out, and so are the answers
to metrics requests, which touch neither queue nor flags.

### PackageStatus

The other end of that connection. `accepted` and `conn[c]` are the registry of
`LogCollectorSocketServer`; `chain[t]` is one of the promises that store
"connected" or "disconnected" and tell the gateway, `ask[m]` a metrics request from
the view to the package and back, with its timeout. `stored` and `shown` are the
last event in the table and the status in the view.

### ProcessCluster

`worker[w]` is free, alive, or dead and still in `cluster.workers`. `restarts`
are the ages of the restarts the code remembers, `forks` those that were made (history).
A shutdown counts the workers listed and waits for their exits; the
primary also ends when nothing keeps its event loop alive.

### ProcessRunner

A tab of the terminal and the two files by which the runner knows it; the
runner looks at intervals (`Monitor`) and is stopped by a signal (`Stop`, then
one `Kill` per tab). `spared` names the tabs whose pid was not yet written, or
that could not be killed.

## 3. The checks

| Run | Checks | Shows |
|---|---|---|
| `chat_rooms` (369,000 states) | `OwnerInOwnGroup`, `NoAbandonedPrivateRoom`, `ArchivedIsEmptyUnlessOverlap`, `ImplementsPolicy`, `EmptyPrivateRoomCloses`, `AccessHeldAtOnce` | rooms follow the policy under every interleaving of two requests, and an access check beside them lets nobody into a room that is closed |
| `archived_group` | `NobodyInArchivedGroup` | **violated**: an archived group can keep active members |
| `empty_message` | `MessageHasContent` | **violated** by one request alone: the message is inserted before its files are checked |
| `file_folders` (571,000) | `AcyclicUnlessMovesOverlap`, `PlacedUnlessDeleteOverlaps`, `RequestsEnd` | the tree is sound as long as moves, and deletions with insertions, do not overlap; walks end on a tree |
| `folder_cycle` | `Acyclic` | **violated**: two moves at once close a cycle |
| `user_roles` (2,505,000) | `OneSuperadministratorUnlessOverlap`, `ClaimsAreCurrentUnlessOverlap`, `LinkedRolesLiveUnlessOverlap`, `HasRoleUnlessOverlap`, `HandedOverWhole` | exactly which overlaps break the rules about roles; the superadministrator is handed over in one step (on MySQL; PostgreSQL is proved in section 4) |
| `superadmin_transfers` | `ExactlyOneSuperadministrator` | **violated** on PostgreSQL by two transfers |
| `log_client` (347,000) | `LinesInOrder`, `OneConnectionUnlessCrossed`, `DisabledIsDisconnectedUnlessCrossed`, `ImplementsLogQueue`, `QueueDrains` | no line is overtaken, repeated, taken back or lost before its time, and none waits for ever |
| `processes` (722,000) | `StatusSettles`, `MetricsAnswered`, `RestartsBounded`, `ShutdownEnds`, `NoTabLeftRunning`, `MigrationsWhole`, `BotIsTheConfiguredOne`, `CodesWorkOnce` | package status, metrics, restarts and shutdown, terminal tabs, database commands, the bot and codes |
| `services` (517,000) | `OnlyOwnFiles`, `NoDanglingAttachment`, `EmptyOnlyWhenMarred`, `DeletedHasNoAttachment`, `UploadsAccountedFor`, `ReadWasPublic`, `SignInHolds` | messages, uploads, readers of files, cookies |
| `clients` (1,215,000) | `ViewCatchesUp`, `ChannelIsMembers`, `SavedWhenQuiet`, `FilesShownAreKept` | what a browser shows and saves |
| `administration` (301,000) | `AdminShownIsKept`, `PermissionsAsAsked` | the page of users and roles, with another administrator at work |

A run whose property is violated states what a document or a message of the
code says; `PROJECT.json` ("findings") quotes it. The passing runs state what
does hold, so that the pairs (`Acyclic`, `AcyclicUnlessMovesOverlap`) and
(`ExactlyOneSuperadministrator`, `OneSuperadministratorUnlessOverlap`) together say
that the overlap is the only cause. The findings without a run were met while
modelling; most are named by a history variable.

**Scenes.** Components that share nothing need not be interleaved. `processes`,
`services` and `clients` put several of them side by side: the variable `scene`
is chosen in the initial state, only that component moves, and the others
keep one initial state. Each scene is a model of its own, as if it had a run.
`MCFileFolders`, `MCUserRoles` and `MCAdministration` use scenes to divide a
component whose whole is too large for a run.

**Bounds.** Two requests at a time: each hazard is a matter of one request
between two statements of another. Slots are reused (except in
`ChatMessages`, where a slot serves one request), so that sequences of requests of any
length are covered: the state spaces are finite without further bounds.

* `ChatRooms`: three users give a group with members besides its owner and an
  outsider; one room besides the public one, because no statement concerns two;
  one value of `new Date()`, because no property compares dates. One reader is enough
  in `RoomAccess`: a check writes nothing, so checks do not disturb one another.
* `ChatMessages`: two messages (one old) and two files give a message every
  content that the check of the last attachment tells apart, and let one of them go between
  its own check and that of the other.
* `FileFolders`: three folders give a walk of two steps that a move can cross
  (scene "folders"); two folders and an item give deletions and insertions (scene "items").
* `UserRoles`: two users, one role besides superadministrator and one session
  suffice for the transfer, which concerns the former and the new holder (scene
  "all"); a second ordinary role, without which no other link is ever taken away
  and given back (scene "links").
* `LogCollectorClient`: three attempts for ten and two lines for 500 reach
  the limit, one below it, and the step past it; three sockets are one that ends
  and two that are being connected; seven records fill the queue, overflow it and
  go on after a reconnection. `MaxTimers` and `Sockets` hold up a `close` or an
  attempt until a timer has gone off or a socket has closed.
* `ProcessCluster`: two workers, one restart each in a window of two ticks
  reach the limit, stay below it by waiting, and pass it. `PackageStatus`: two
  connections overlap when a package reconnects; two events and two requests
  cross. `ProcessRunner`: three tabs can be gone, running and opening at once.
* `Uploads`: three parts are one that fails, one written and one still opening.
  `DatabaseInit`: two commands, the second not `initialize`, which is the short ones in a row,
  and transfers of the role only without it; two migrations with every kind of statement
  before and after another. `Notifications`: two tokens, users, codes and
  requests, one MAX account for both users, a limit of two attempts.
  `FileAccess`: two folders, two files, two readers. `Sessions`: two tabs, two
  requests, two sign-ins.
* `ChatClient`: one message, two requests, one load, at most two messages in
  `inbox`. `DocumentEditor`: two documents, contents and titles, two saves and two
  loads. `FileViews`: one folder, one file and one document; two lists, two
  changes, two events (`MaxEvents`). `Administration`: two roles, two permissions, one user,
  two changes, two lists.

**Steps that are not followed.** The MC modules restrict the steps of a scene
so that a run ends in time; each restriction is commented there. Two kinds.
*After the exception:* once a history variable says that a property promises
nothing any more, no new request begins (`StatusStep`, `EditorStep`) or the behaviour
is not followed (`MessagesStep`, `FilesStep`). *Independent things:*
`AccessStep` lets one reader meet the changes and lets archives age while nothing
changes; `OneTab` has all pages in one tab, `TwoTabs` sign-ins that cross
requests of another tab; the
"messages" scene of the chat leaves the room alone (the view may be left and mounted again at any
time, the connection is lost when all is quiet) and "channel" the messages;
`WatchStep`, `ChangeStep` and `BulkStep` give each viewer of files what is
particular to it (in `ChangeStep` others change an item that an update has read or answered); the scenes of `MCAdministration` keep to permissions, roles or
users. What such a restriction excludes (all of it in one behaviour) is not checked.

**Types.** Each type invariant is proved (section 4), alone or as a part of the inductive
invariant of its module. The runs state properties only.

**Symmetry** is used in `user_roles` only (request slots); that run checks
invariants and no liveness. `MCServices` and `MCProcesses` take the slots of requests and
connections in order, and give the first code to the first user, which loses
nothing because slots and users are alike.

**Deadlock** is not checked: a system without users has nothing to do, in
`ChatMessages`, `Uploads` and `ProcessRunner` everything may be done, and in others all
rooms, folders or users may be used up; a log client that has given up does
nothing, a primary that has ended neither.

**Fairness.** `FairSpec` is weak fairness of the statements of each slot: the
database answers, and Node runs the callback. It does not assume that users make
requests, that requests succeed, or that a worker does not die (`FailRequest`
is not fair and may happen at any time). In `LogCollectorClient` an attempt ends
(the timeout of one second sees to it), a socket that has ended closes, and timers go
off; nobody has to log, and a connection may last for ever. In `ProcessCluster`
the timer of the shutdown goes off, SIGKILL ends a worker, Node stops
listing a worker that has exited, and a process with nothing left to wait for ends; a worker
need not obey the first signal. In `PackageStatus` the timeout of a
metrics request goes off and the steps after an answer are made; the package need not answer.

## 4. The proofs

`ChatRoomsProofs` proves for all sets of users, rooms, slots and dates:

* `TypeCorrect`: `Spec => []TypeOK`;
* `InductiveInvariant`: `Spec => []IInv`;
* `OwnerStays`, `EmptyRoomsClose`: safety invariants of the run `chat_rooms`, from `IInv`;
* `RoomsFollowPolicy`: `Spec => Policy!Spec`, the refinement of `RoomPolicy`;
* `AccessInvariant`, `ArchivedRoomsAreEmpty`, `AccessIsOneCheck`: of `RoomAccess`, whose
  behaviours are behaviours of `ChatRooms` (`AccessKeepsRooms`), so that all of
  the above holds of them.

The only assumptions are `ConstantsAssumption` of `ChatRooms`: public rooms are
rooms, and SQL NULL, dates, and "no row" are different values; and
`ReadersAssumption` of `RoomAccess`: those who are checked are users.

The invariants are not inductive. `OwnerInOwnGroup` does not survive the UPDATE
of a member row by an `updateRoom` unless this request keeps the user who
made it, and that user is the owner or the room is closed.
`NoAbandonedPrivateRoom` needs that requests that write members of existing
rooms concern groups, so that a `leaveRoom` that counts nobody in a private room
counts right: nobody will be in it again. `IInv` is therefore the conjunction of

* `TypeOK`;
* `SlotOK` for every slot: what a request in progress still knows of its room,
  one operator per method. `OpenerOK`: the room of a `createRoom` is active,
  owned by its user and has no member rows yet. `UpdaterOK`: the room is a group
  with rows, has no other owner than the user, and the user is kept. `DeleterOK`:
  it is a group with rows. `LeaverOK`: it is open to be left, the user is not the
  owner of a group, only a private room is counted, and when it is about to be
  closed nobody is in it;
* `OneOpener`: no two `createRoom` insert the members of one room;
* `RoomOK` for every room: the three properties, and that only a room that was
  opened has member rows.

The proof has one lemma per action. They share lemmas on what a statement
leaves alone (`Frame`, `Evolves`): a slot that does not move keeps `SlotOK` when
its room evolves in a permitted way (`SlotSurvives`), a room keeps `RoomOK`
when nothing it depends on changes (`RoomSurvives`), and `StepKeepsIInv`
puts the parts together.
The refinement maps `rows` and `active` to the sets of users that the member
rows define; most statements are stutters of `RoomPolicy`.

`AccessHeldAtOnce` is about a step, the second SELECT: the room it lets the user into was
found active by the first, which may be long ago. What carries it over is `AInv`:
a room once opened keeps a status (`CheckOK`), and a room that is not active has nobody in
it (`ClosedOK`), so that a member row that is still active means that the room is. For an
archived group this needs that who archives has emptied the room (`EmptiedOK`) and nobody
fills it again: an `updateRoom` that could is one that `overlapped` names (`OverlapOK`).
The proof does not repeat the case of each action: `Outline` says what the
statements do to rows, statuses and phases, `StepOutline` proves it of each action once,
and `ClosedStep`, `EmptiedStep` and `CheckStepAInv` reason from it.

The other proof modules have the same plan: an inductive invariant of named parts,
one lemma for each action or kind of action that keeps it, and the properties
as consequences. What each needs besides types:

**`ChatMessagesProofs`** (`OldMessages` are messages, and the mark of their
attachments is no request).
* `Ownership`: what each stage of a request still refers to (`Fits`): its message exists and is
  its user's, the files about to be attached have been found to be the
  user's. From it `OnlyOwnFiles`; owners and senders never change.
* `Exposure`: a request about to delete a file has counted no attachment of it, and
  nobody is about to attach it (a request that has checked it, while it still checks others,
  included) unless it is `exposed`.
* `Contents`: a message outside `marred` has one request at work at most, and what that
  request has read of it is still so (`InHand`); else it has content when live and no
  attachment when deleted.

**`FileFoldersProofs`** (the root is no folder; the sets may be infinite).
* `Rows`: a checked place exists, a folder about to be created is not there and nobody
  else's.
* `Walks`, until two moves overlap: the folders are acyclic, and each move that walks has
  a set `seen` of folders, none of them the moved one, that lead from the new parent to the
  folder it reads next. When it has read the root, `seen` is closed upward, and so
  the new place is not below the moved folder.
* `Deletions`, until a deletion overlaps something put in place: all is placed, a
  checked place is live, and what a deletion has found empty still is.

Acyclicity is "no set of folders each of which is in another of the set", so
that neither paths nor induction over them are needed.

**`UserRolesProofs`** (both databases; the first user is a user, superadministrator
is none of the other roles). One part for each property, each until the overlap that
excepts it: `Supers` (one holder, and everything a request has read of
that role is so still: `SuperRead`), `Claims` (also a login that is about to insert
its session claims what is so), `LinkedRoles` (the roles to be
assigned are live, the one to be deleted is not assigned), `HaveRoles` (what is still
to be written gives the user all roles asked for). `OneSuperadministratorUnlessOverlap` holds on
PostgreSQL too: of two transfers at once the second is an overlap. What a transfer has
written and not yet committed is in `SessionsFound`: `ended` holds every live session of who
has the role and of who gets it, until a login is recorded as an overlap, which on MySQL cannot
happen at that point and on PostgreSQL can. `ClaimsAreCurrent` and `RoleHandedOver` therefore hold on both, with that login as
their exception on PostgreSQL. `RoleHandedOver` is about
steps: by `SuperRead` only a commit of a transfer changes who has the role (`SuperLinks`),
and then it has locked every row that was live, so that it ends the sessions of all it takes
the role from (`CommitHandsOver`).

**`ServicesProofs`.** For `Uploads` (any parts): `Paths` (a path is noted before its
file exists), `FilesKept` (nothing is removed before a clean-up), `Controlled` (the controller
runs when all parts have ended, and has the rows), `FilesCleaned` (a clean-up covers all files but the
late ones). For `FileAccess` (finitely many files; folders without cycles, which
`AccessInv` keeps, because a move below itself is rejected): a reader has noted
all that was public since it began; without a change the folders it has seen
are public and lead to the one it reads next (`WalkedPublic`); after one change, if the rest of
the way is public, the file was. The lemmas on `Way` (the folders above, as
the least set closed upward) stand for an induction along the walk. For `Sessions` (any
tabs and requests; `None` is no session, tab or request): `ExchangeOK`, each request
carries the token of a session that was signed, and what an answer on its way says of a
session is so; `SessionsGoOn`, the action behind it: sessions stay in their table, what
is revoked or expired stays so. `SignInHolds` is about steps: a cookie is cleared only in its
turn (`CookieClearedInTurn`), because a request that is answered leaves its slot
(`SlotIsTaken`).

For `LogCollectorClient` (any numbers of sockets, attempts, timers and
lines; `ClientAssumption`: they are positive, and `null` is no socket) it proves
`TypeCorrect`, `LinesStayInOrder`, `OneConnection`, `GaveUpIsDisconnected` and the
refinement `ClientIsLogQueue`, that is everything in the run `log_client` but `QueueDrains`. Its
`IInv` has two parts besides types. `LinesOK`: the queue holds exactly the last
lines logged, everything written is older than it, in ascending order, and
nothing of the last `MaxQueue` is missing in between (until the client gives
up). `Alone`, until `crossed`: one socket that is not free, `connecting` when it
is being connected, `current` when it is or was open, and when disabled no attempts
left and no socket connecting or open. The lemmas `WriteLines`, `DropLines` and
`EnqueueLines` say what the three operations on the queue do to `LinesOK`;
`FlushIInv` covers the four ways `flush` can go, for `Log` and `RetryTimer` alike.
For the refinement each of these ways is one of `Keep`, `Write` and `GiveUp` of the abstract queue
(`FlushHandles`), and `EnqueueKeepsNewest` turns "drop the oldest when full" into "keep the
newest `MaxQueue` of all that wait", which needs that the lines in the queue follow one another
(`LinesWait`, from `LinesOK`). Once the client has given up its queue stays empty
(`NextSilent`), so that whatever timers and sockets still do writes nothing (`SilentFlush`).

**`ProcessesProofs`.**
* `ProcessRunner`: a tab that still opens or runs is `spared`, or awaited and not
  misjudged by its files (`TabFiles`, `TabsLetGo`).
* `Notifications` (finitely many requests, `None` is no row): `Bots`, the token that is to be activated is
  the stored one; `CodeOK`, which counts with the attempts and sessions of a code the
  answers that are being checked: a code not consumed has opened no session.
* `DatabaseInit` (migrations are sequences of statements): `JobOK`, a command that
  applies a migration has the effects of its statements up to the next one, unless,
  on MySQL, it is `old`: then the effects went with the database that was dropped. A command of
  PostgreSQL that outlived a drop was in no transaction. Hence the exception `strayed`.
* `ProcessCluster` (finitely many slots, among them the first workers): what
  the primary remembers of its restarts is what it made (`Restarts`), and a shutdown waits for
  no fewer workers than run. `RestartsBounded` counts `forks`, which the code does not see.
* `PackageStatus`, until something `crossed`: one event and one request under way at
  a time; the event that will be stored last (`Last`) agrees with the registry; and if
  what the view shows is not so, something under way will change it (`ViewFollows`).

**`AdministrationProofs`** (`None` is no request, name, row, list or page).
`AdminInv` is types and
* `SavesOK`: as long as an update of the permissions of a role is alone, each link is
  what it has read or already as asked; when it has ended whole and alone, the
  permissions stay what it asked for until something else is begun on the role;
* `LinkedRolesKept`: users, deleted ones too, have roles that are not deleted, so that
  the names listed with a user change by `updateRole` only;
* `SavesForRequests`: an update of permissions writes for a request that waits for it;
* `AnswersOK`: answers and lists on their way that are not marked old say what is kept;
* `RolesBehind`, `UsersBehind`: while a part of the store is not `stale`, it differs from
  what is kept only by changes that have been made and are still to be answered.

**`ClientsProofs`.** The scenes of the run leave things out to end in time; the theorems
hold of the whole components. Each of the three invariants says that *what is shown is
kept, or something under way will make it so*, and every action has to keep that.
* `ChatClient` (any messages, requests, loads and letters; `None` is no message, request
  or load). Always: `ChannelFollows`, a socket in the channel whose user is no member has
  a leave that was served and is still to take it out, unless `putOut` or `strayed`
  (hence `ChannelIsMembers`); `LettersTrue`, nothing is under way that has not happened.
  Until `crossed`, `Uncrossed`: what comes of a message comes in the order in which it
  happened (`InTurn`), an active room outside the channel and a closed room that is listed
  are about to go (`StaysJoined`, `Closes`), what comes of a deleted message is followed by its
  deletion (`Ended`), a send is answered (`Sends`), no connection was lost (`NoneLost`); and
  `Follows`: a list is asked for, or the one read, or else the view, becomes what is kept by
  what is still to come of each message (`LeadsOn`). It holds because a room opened while
  the view is away, which nothing loads, is `crossed`.
* `DocumentEditor` (any documents, contents, titles, loads and saves). Always: a row is
  final when it is dated, and requests have read such rows (`Dated`); without a view
  nothing is awaited (`OnScreen`). Until `docCrossed`, `Together`: the document of the
  address is open or being loaded; one save is under way at most, which carries what is
  shown or a timer is set for what came later (`SaveHolds`); with none, the row is what is
  shown, or a timer is set. That `finalizedAt` stays needs that a save has read the row it writes.
* `FileViews` (any folders, files, documents, lists, changes, events and workers; tables have no
  rows in common). `CallsTrue`: an answer that is not old says what is kept of
  its item and no other does (one made of an instance read before another change is old from the
  start); `Here`: without a view no timer runs and no upload field
  is there; `Within`: `runLimited` has no more requests at work than workers; `Looks`, until
  `apart`: something has the list loaded again (`Excused`: a timer, an event, an old
  answer), or a list for the address shown has read what is kept (`Reading`), or
  each row shown is what is kept or its answer is on the way (`RightRow`).

**Model-checked only.**
* Liveness: `EmptyPrivateRoomCloses`, `RequestsEnd`, `QueueDrains`,
  `ShutdownEnds`, `MetricsAnswered` need ENABLED, which is out of the prover's reach.
* The four violated properties do not hold; there is nothing to prove.

## 5. What is not modelled

* Titles, texts, names, dates: only what a property tells apart.
* Reads that decide nothing (DTOs, breadcrumbs, log rows).
* Validation of payloads, routing, calls between services as such; the byte
  ranges of `ResponseSender`; the conversion of documents to DOCX; the names of
  entries and the bytes of ZIP archives: functions of their input, without state over time.
* The uniqueness of logins and of role names; paging of users; the superadministrator
  on the page of users and roles.
* Formatting commands of the document editor; previews and the media viewer;
  notification bell, logs view, themes.
* Several gateway processes with sockets of one user.
* Rooms and messages in one model: `RoomAccess` has the check and the rooms, `ChatMessages` what
  comes after the check.
* The parts marked `not_modelled` in `PROJECT.json`, each with its reason.

## 6. Plan

Done: the parts with state over time are modelled and checked, in full or in part, and
every invariant, action property and refinement of a passing run is proved; what
is left to TLC alone is liveness. What could follow:

1. Proofs: that `redated` and `strayed` are set by no other step than those that their
   modules name.
2. Models: the table of notifications with its read flags; an abstract specification of
   a signed-in browser that `Sessions` implements.
