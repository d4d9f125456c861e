# MyOpenMPI: a verification project

MyOpenMPI is a copy of Open MPI 1.4.2 (`src/openmpi-1.4.2`) together with
experiments that replace TCP/IP by raw Ethernet frames: a file-transfer
protocol of its own (`src/socketraw`), a few MPI calls that send on an
`AF_PACKET` socket (`MPI_Myinit`, `MPI_Mysend`, `MPI_Myrecv`,
`MPI_Myfinalize`, added to `ompi/mpi/c`), and benchmarks (`src/test`).

The file transfer is the repository's own protocol, with its own sequence
numbers, acknowledgement grids, retransmission and timeouts, and no test: it is
the core of this project. `FileCopy` says what it promises; `RawServer`,
`RawClient`, `RawLink` and `RawTransfer` model what it does;
`RawTransferCrash` adds processes that stop and start.

Under every MPI message of the experiments is Open MPI itself. Four parts of it
whose logic is hard to test are modelled beside the transfer: how two processes
settle on one TCP connection (`TcpEndpoint`), how messages are matched with
receives (`Ob1Matching`, which implements `MpiMatching`), how the data of a long
message moves and when its requests complete (`Ob1Rendezvous`), and how processes
agree on the identifier of a communicator (`CommCid`, which implements `CommIds`).

Names in the modules are those of the source, so those of the transfer are Spanish: *tramo* or
*porcion* (window), *grilla* (acknowledgement grid), *hueco* (hole in it),
*cable* (wire), *resumen* (digest), *origen* (source address).

## 1. Inventory

### 1.1 The raw-Ethernet file transfer (`src/socketraw`)

| part | state | operations |
|---|---|---|
| server, `server.c` | number of the window being received (`nro_secuencia_anterior`), grid (inside the outgoing ACK, `buffer_sent`), `ack_completo`, `buffer_write` and its byte count, `total_escrito`, announced size, `primer_paquete`, open file, last frame read (`buffer_recv`) | one loop: a frame 0xFF (name and size), 0xFE (end), 0xFD (digest), a chunk; a foreign frame; a timeout of half a second; `enviar_ack()`, `distancia()`, `sigint()` |
| client, `client.c` | place in the program, window as read (`buffer_read`), number of the window, chunks sent, last frame sent (`buffer_sent`), file position | `startOfTx()`, the read/send/wait loop of `main()`, `esperar_ack()` with the filling of holes, `endOfTx()`, `compareChecksum()`, `esperar_checksum()`, `sigint()` |
| shared, `common.h`, `common.c` | - | `CHUNK`, `CANT_CHUNKS`, `TIMEOUT`, `LIMITE_PAQUETES_ENTRANTES`, `error()` (exits), `md5sum()` |
| Ethernet segment (external) | frames in flight and in socket buffers | loses, drops when full, pads short frames to 60 bytes |

*Interaction.* The two programs share nothing but the wire. The client names
the file (0xFF) and waits for an ACK 0xFF; reads a window of 8 chunks, sends
them with consecutive numbers and waits for an ACK of the window whose grid
marks every one, filling the holes of any other grid; ends with 0xFE; asks with
0xFD for the MD5 of the copy and compares. The server answers when the grid is
full, when the last chunk of a window or of the file comes, and, after the first
data frame, whenever nothing has come for half a second.

*What is hard.* Every frame may be lost in either direction; both ends time out
on their own; the last ACK is repeated whatever the client is waiting for by
then; the numbers wrap after 0xEF by a formula of each end's own; state
survives from a window, a file or a client to the next (the grid, the byte
count, `ack_completo`); the window that the client overwrites is its only copy.

*What makes it correct.* The two ends agree on the window; a grid tells the
truth about the window it is taken for; the client lets go of a window only when
the server has all of it; the copy grows along the file and is closed whole; the
verdict printed is true; and a client on a link that lets frames through gets to
its verdict.

### 1.2 The raw-socket MPI calls (`ompi/mpi/c/myinit.c`, `mysend.c`, `myrecv.c`, `myfinalize.c`)

State: two global raw sockets and a packet counter. `MPI_Mysend` sends a burst
of 1000 frames of each size to a fixed MAC address, with no acknowledgement,
then one frame of a bare header as end marker; `MPI_Myrecv` reads until a frame
of exactly that length comes. Hard: the marker may be lost, and a wire pads it
to 60 bytes, after which the test of its length fails; the counter is written
through a pointer that is never set. Correct if every `MPI_Myrecv` ends.

### 1.3 Benchmarks and tests (`src/test`)

`test/socketraw`: ping-pong of raw frames and of UDP datagrams, strictly
alternating, blocking receives without a timeout: one lost frame stops both.
`test/connectivity.c`: every pair of ranks exchanges a message with the calls of
1.2; whether it ends depends on the order of its blocking calls.

### 1.4 Open MPI 1.4.2, the parts with logic of their own

| part | state | hard | correct when | modelled |
|---|---|---|---|---|
| BTL tcp, connection (`btl_tcp_endpoint.c`, `_component.c`, `_frag.c`) | `endpoint_state`, socket, current and queued fragments, send event, one per peer and side | both sides connect at once: each accepts or rejects by comparing process names, while its own socket is half-open | one connection survives, both ends use the same one, queued fragments go out on it once and in order | `TcpEndpoint` |
| PML ob1, matching (`pml_ob1_recvfrag.c`, `recvreq.c`, `pml_ob1.c`) | expected sequence per peer, fragments that cannot match yet, unexpected fragments, posted queues (specific and wild), fragments of communicators not there yet | messages arrive out of order over several BTLs; wildcards compete with specific receives; callbacks run in several threads | matching follows the order of sending; nothing matched twice or never | `Ob1Matching` |
| PML ob1, rendezvous (`pml_ob1_sendreq.c`, `recvreq.c`) | per request: state, lock counter, bytes, pipeline depth, ranges to send; lists of what waits for resources | ACK, PUT, FIN and FRAG cross; a transport runs out of resources; who finds a lock taken leaves its work to the holder | each part of the message comes once; a request completes once, with all its data, and nothing reads its buffer afterwards | `Ob1Rendezvous` |
| Communicator identifiers (`comm_cid.c`) | table of identifiers per process, list of creations in progress | concurrent creations in several threads; the number agreed on may be taken at some member | all members choose the same number, free at each while tables have room; no two communicators share one; every creation ends | `CommCid` |
| BTL sm FIFO (`btl_sm.h`, `btl_sm_fifo.h`) | ring of slots, head, tail, pending sends | one writer's lock, readers without one; full ring | nothing lost, duplicated or reordered | - |
| OPAL LIFO, condition variables, request completion | linked list with CAS, waiters and signals | ABA, lost wake-up | free list holds each item once; a waiter of a finished request returns | - |
| Collectives (tuned barrier, ...) | - | pairing of rounds | nobody leaves before everybody enters | - |
| One-sided synchronisation, checkpoint bookmarks | counters per window, per peer | late control messages | epochs close when all has come | - |
| ORTE: out-of-band TCP, routing tree, launch | peers' states, routing table | as BTL tcp | a message reaches its peer once | - |
| ROMIO, VampirTrace, libevent, libltdl, PLPA | - | third-party trees | - | - |

*Interaction.* `ob1` hands fragments to transports (BTLs), whose callbacks bring
completions and arriving headers; `TcpEndpoint` is one BTL's connection,
`Ob1Matching` takes what BTLs deliver, in any order, to the receive it is for,
and `Ob1Rendezvous` starts where a long message has been sent its first header
and goes on from its match. `CommCid` chooses the number (`hdr_ctx`) by which
`Ob1Matching` finds the communicator of a message; its allreduce is made of
messages on the parent. The modules meet at these interfaces by what they
assume of each other: transports that deliver each header once, in any order;
an allreduce that nobody leaves before all have come.

## 2. Modules

| module | what it is | code |
|---|---|---|
| `RawProtocol` | frame codes, sequence numbers, windows, grids, contents | `common.h`, constants and formulas of both programs |
| `RawLink` | the segment: a bounded queue each way, loss, drop, padding | external |
| `RawServer` | the server: one action per branch of its loop | `server.c` |
| `RawClient` | the client: an action per frame sent, per frame read and per return of `esperar_ack()` | `client.c` |
| `RawTransfer` | server, segment and a succession of clients; properties, fairness, refinement | both |
| `RawTransferCrash` | the same with interrupted, dying and restarted processes | `sigint()`, `error()`, `main()` |
| `FileCopy` | what a copy promises: abstract | - |
| `RawTransferInv` | the inductive invariants: the order of the frames, and the contents | - |
| `RawOrderProofs` | type correctness; the order of the frames is invariant, and what follows from it | - |
| `RawContentProofs` | what frames, buffers and disk contain; the steps of `FileCopy` | - |
| `RawCrashProofs` | what is left on the wire by processes that stop; the verdict all the same | - |
| `TcpEndpointProofs` | types, the agreement on a connection, the line of fragments | - |
| `Ob1RendezvousProofs` | one hand per request, one way per fragment | - |
| `Ob1CountProofs` | the counts that complete a request are those of the fragments; the pipelines' depths, type correctness | - |
| `Ob1MatchingProofs` | messages taken in sequence, none lost, stranded or missed; the refinement of `MpiMatching` | - |
| `CommCidProofs` | types, agreement on an identifier, the tables, the refinement of `CommIds` | - |
| `TcpEndpoint` | BTL tcp: two endpoints, sockets, connects that cross, fragments queued behind them | `btl_tcp_endpoint.c`, `btl_tcp_component.c`, `btl_tcp_frag.c`; kernels external |
| `MpiMatching` | what matching promises: abstract | - |
| `Ob1Matching` | PML ob1: sequence numbers, parked fragments, queues, probes, cancellation | `pml_ob1_recvfrag.c`, `pml_ob1_recvreq.[ch]`, `pml_ob1.c`, `opal_list.h` |
| `Ob1Rendezvous` | PML ob1: the data of one long message and the completion of its two requests | `pml_ob1_sendreq.[ch]`, `pml_ob1_recvreq.[ch]`, `pml_ob1_recvfrag.c` |
| `CommIds` | what choosing an identifier promises: abstract | - |
| `CommCid` | the agreement on the identifier of a new communicator | `comm_cid.c`, `opal_pointer_array.c` |
| `MC...` | instances of each for the runs | - |

### How state and actions correspond to the code

*Server.* Variables have the names of `server.c`. `grilla` and `resumen` are the
payload of `buffer_sent`: the grid lives in the outgoing ACK, so each ACK
carries whatever it holds. `enviar_ack(nro)` is evaluated over the primed
state, as it runs last in each branch, except 0xFF, 0xFE and 0xFD, whose
assignments around it touch neither. `RecibirNombre`, `RecibirFin`, `RecibirPedidoResumen`,
`RecibirDatos` are the branches 0xFF, 0xFE, 0xFD and data; the data branch has
two ways out, `RecibirFueraDeSecuencia` (ERROR and exit) and the rest, which,
when the chunk opens the next window, first writes the one that was complete,
advances, and clears grid and count. `TramaAjena` is the frame of somebody
else: ignored, but it stays in `buffer_recv`, and the next timeout ACK goes to its
sender. `TimeoutServidor` repeats the last ACK unless `primer_paquete`.

*Client.* `cpc` is where it is: `startOfTx`, `leer` (about to read a window),
`tramo` (sending it), `ultimo` (about to resend what is left in `buffer_sent`),
`huecos` (filling holes), `esperar` (in `esperar_ack(esperado, ...)`), `endOfTx`,
`compareChecksum`, `esperar_checksum`, `exit`. Frames of a burst are an action
each, so that loss and the server's answers fall between them. `esperar_ack()`
returns 0 (`AckEsperado`), 1 or 4 (`AckDeOtro`), 2 (`LimitePaquetes`), 3
(`TimeoutCliente`); `Reintento` is what each caller does with the value: name
the file again, send the last frame again, send the window again, or, in
`endOfTx()`, only wait again. `NuevoCliente` is another process on the same host.

*Contents* are cells `<<file, position>>`, so two bytes are equal only when they are
the same byte of the same file; a digest is the content itself (MD5 is taken to
be injective). Memory that was never written, and what is past the end of a
buffer, is `BASURA`, a cell of no file, different from every byte of a file; the
zeros of the wire's padding are `CERO`.

*`TcpEndpoint`.* `endpoint[p]` is `mca_btl_base_endpoint_t` of `p` for the other
process; `send_event` says whether its send event is in the loop. A connection
is named by who started it; its two ends open and close apart, and what was
written on it stays readable until the reader closes. One action per callback:
the send handler (`CompleteConnect`, `SendCurrent`, `SendInvalid`), the receive
handler (`RecvConnectAck`, `RecvFrag`), and the component's two for connections
that come in (`AcceptHandler`, `ComponentRecvHandler`, which calls
`mca_btl_tcp_endpoint_accept()`). `Send` is the PML's call in each state.
Callbacks do not overlap: the default build has no progress thread. Kernels may
refuse a connect, complete it at once or later, and reset a connection, with
any part of what was on it arriving.

*`Ob1Matching`.* An action is what a thread does while it holds
`matching_lock`: `Callback` is the header's arrival with the fast path of short
messages, `FragMatch` and `Drain` the slow path, which releases the lock between
fragments. `match_one()` is `MatchOne`; the merge of the two posted queues by
sequence is `Earliest`; `At` removes from a list the way the code does, keeping the order of the
rest. `AddComm` is `mca_pml_ob1_add_comm()` with the fragments
that came before. Numbers are `% SeqSpace` on the wire and in
`expected_sequence`, and unbounded at the sender. `RecvReqStart` posts receives
and probes; `Cancel` is `mca_pml_ob1_recv_request_cancel()`.

A cancel takes a receive for not matched by its `MPI_TAG`
(pml_ob1_recvreq.c:105), and that is set in `recv_req_matched()`, after the lock is
released (pml_ob1_recvfrag.c:186 and 192, 645 and 650). So a match leaves the
receive in `unmarked[t]`, and `MarkMatched` is the thread's next step; data comes
after it (`PmlComplete`). A post that finds its message has no such moment for others:
nobody can cancel the request before `mca_pml_ob1_recv_req_start()` has returned.
A `Cancel` in between calls `opal_list_remove_item()` for an item that has left
the list: its old neighbours are linked again, so that nothing happens, or those
appended since are lost, or others that had left are back (`Damaged` has every such
outcome; with `--enable-debug` the function only warns). `corrupt` remembers it.
What else is wrong then is not modelled: the length of the list, its back pointers,
a walk that meets what is no receive, and a request that its owner frees after the
cancel while the callback still uses it. Nor is a cancel of a receive that the
list has lost: it is in no queue and not matched, so the model leaves it waiting.
That `req_complete` is tested before the lock is taken
(pml_ob1_recvreq.c:90) makes one more window, of a receive that completes before
the lock is had: it is marked as cancelled, as one that is about to complete is here.

*`Ob1Rendezvous`.* One message of `Length` fragments. `spc` and `rpc` are where
each context at the sender and the receiver is between two changes of shared
state: contexts are threads, or callbacks that run inside a send, so any may be
in the middle of its work while another begins. `sendreq.lock` and
`recvreq.lock` are the counters of `lock_send_request()` and
`lock_recv_request()`. `due` are local completions; a put reads the buffer when
it completes. `Fails` is a transport out of resources, at each place where the
code tests for it. Which part is eager, put or copied is any split that
`recv_request_ack()` may make of the message.

*`CommCid`.* A creation is a process and a child; `pc` is where
`ompi_comm_nextcid()` is between locks and allreduce operations. An allreduce is
two waits: nobody leaves it before all have come with their values (`AllProposed`,
`AllAnswered`). `registered` and `communicators` are the two tables of a process. Threads
are given by `After`: which creations come one after the other in a thread.

The loop for a free entry may end without one (`ScanEnds`; comm_cid.c:198-205).
`nextlocal_cid` is then what it was: the number proposed in the round before, or,
in the first round, a variable without a value, for which the model takes any entry
of the table. The creation goes on with it to the allreduce, and the entry that it
then clears (213) or keeps (209) may be another's. `exhausted`
remembers that it has happened. A first value that is no index of the table is not modelled.
`freed` says who has freed what: the destructor clears the entry of its communicator
whatever is in it (comm_init.c:431-436), which matters only then.

### What the model of the transfer assumes

- The link neither reorders nor duplicates frames: one segment, one queue.
- Frames to the client are lost only while it waits (`Perder`): it reads nowhere
  else, so losing a frame sooner gives no other behaviour.
- Timeouts may come at any moment in the safety runs, however short the wait.
- A timeout of `esperar_checksum()` changes nothing and is a stutter.
- `null_buffer` (client.c:195 clears its first 8 bytes only) is zero, as it is on
  a fresh heap; else no ACK would ever be recognised. The tail of a digest is not
  all zeros.
- The copy of a window over `buffer_sent` (client.c:374) does no harm: the heap
  past it is not used by then.
- A write to descriptor 0 does not reach the destination directory.
- A server that was never told a name answers 0xFD by failing to open the file,
  and exits (`ResumenSinArchivo`).
- `open()`, `write()` and the socket set-up succeed. A size is below 2 GB.
- One client at a time, as the program's usage has it.

## 3. Runs

| run | question | states |
|---|---|---|
| `transfer_safety` | four files one after another, in any order, one past the wrap of the numbers, two with a short last chunk, over a link that loses and drops while both ends time out: `TypeOK`, `SinErrorDeSecuencia`, `OrdenEnElCable`, `AcuerdoDeVentana`, `AckVeraz`, `NadaSeSuelta`, `CuentaDeBytes`, `CopiadoSiConservable`, `InformeVeraz`, `CopiaNuncaRetrocede`, `ImplementaCopia` | 2 930 354 |
| `transfer_live` | over a fair lossy link the content is sent and acknowledged to the end (`ContenidoLlega`) | 8 987 |
| `transfer_crash` | clients interrupted or dying, the server killed and restarted, twice in all: the verdict of a client that started with no 0xFF of another on its way is the truth about the copy (`VeredictoTrasCortes`) | 2 120 727 |
| `tcp_connect` | two processes connect, at once or not, one connect fails, one connection breaks: `TypeOK`, `AgreedConnection`, `NoFragmentLost`, `NoFragmentOvertaken`, `PendingIsScheduled`, `EveryFragmentDelivered` | 53 679 |
| `ob1_matching` | messages of two sources out of order at two threads, past the wrap, with receives, probes and cancellation, also between a match and its mark: `TypeOK`, `TakenInSequence`, `NonOvertaking`, `NoMessageLost`, `NoMissedMatch`, `NoStrandedFragment`, `ImplementsMatching`, `EveryMessageTaken` | 1 109 151 |
| `ob1_rendezvous` | a long message by every way, two contexts at each end, shortages and refusals: `TypeOK`, `EveryFragmentOnOneWay`, `ReceivedBeforeComplete`, `BufferFreeOnComplete`, `InOneHand`, `PipelineBounded`, `EveryTransferEnds` | 1 217 049 |
| `comm_cid` | three creations in two threads of two processes, with a table that may fill: `TypeOK`, `SameId`, `EveryEntryHasOneOwner`, `NoEarlyUse`, `EveryCreationEnds`, `ImplementsCommIds` | 243 734 |
| `digest_lost`, `short_tail`, `ob1_cancel`, `comm_order`, `ob1_put_fallback` | what a comment, a message or a manual page of the source says, and the code does not do: section 5 | - |

*What the properties of the transfer say.*

- `SinErrorDeSecuencia`: without crashes the server never meets a chunk it cannot
  place (server.c:418). It takes several frames of several windows to break.
- `AcuerdoDeVentana`: during a window both ends are at it, or the server holds the
  whole of the one before. It is what the two wrap formulas must agree on.
- `OrdenEnElCable`: for each phase, what may be in flight; the inductive invariant.
- `AckVeraz`: a grid that the client would accept marks only chunks that the
  server has, with the right bytes. The grid is cleared one event late.
- `NadaSeSuelta`: when the client overwrites its only copy of a window, the server
  has every byte so far, once and in order.
- `CuentaDeBytes`: the count that decides which chunk is the last is the length of
  the copy.
- `CopiadoSiConservable`: "Archivo copiado con exito" is printed over a whole copy,
  for files whose last chunk is full or is alone and fills a frame
  (`Conservable`). The code does not promise it for the rest: `short_tail`.
- `CopiaNuncaRetrocede`: a repeated 0xFF never truncates a copy in progress.
- `InformeVeraz`: when the client ends, "correctamente" and "errores" are the truth
  about the copy, for every file, also one whose short last chunk was resent too
  long; whatever answers of another moment crossed the digest.
- `ImplementaCopia`: the transfer implements `FileCopy`, with the directory as
  `copia`, the open file as `abierta`, the client's verdict as `veredicto`, and
  the conservable files as those that are always copied faithfully.
- `VeredictoTrasCortes`: the same as `InformeVeraz` when processes stop and start, for a
  client that started with no 0xFF, nor the ACK of one, on its way (the history
  variable `limpio`); it may find anything else there: chunks, ACKs of windows, of 0xFE
  and of 0xFD, and the server may be killed and start again at any time. The hypothesis is
  not an idle one: frames do not say which client they are of. When a 0xFF is
  sent twice, the server is slow and three clients of the same file are interrupted, each one
  phase further than the one before, the fourth finds a whole transfer before
  it: it takes the answers for its own, down to a digest that is right, and prints
  "Archivo copiado correctamente"; then the server reads its 0xFF and
  truncates the copy. `MAX_CORTES` = 2 is too small for that, so TLC would not show it.

*TCP.* `AgreedConnection`: an endpoint is connected only on the socket that its
peer has settled on, however the two connects cross. `NoFragmentLost`: the
fragments delivered, on that socket and queued are, in this order, all that were
sent: no fragment went out on a socket that the handshake threw away.
`NoFragmentOvertaken`: the same order also when a connection broke (where some
may be missing); it rests on fragments being written whole, since the rest of one
that was partly written would go out on the next connection. `PendingIsScheduled`: a connected endpoint with something to
send has its event in the loop. `EveryFragmentDelivered`: connects that cross
never leave the two without a connection.

*Matching.* `TakenInSequence` relates 16-bit numbers, the parked list and what
was taken; it needs `AheadAssumption` (a sender is never 65536 messages ahead),
which nothing in the code enforces. `NonOvertaking` is MPI's rule for receives
that accept two messages of a source. `NoMissedMatch`: a post and a callback never
miss each other. `NoStrandedFragment`: the message expected is not left parked, where
only a later one would find it. `ImplementsMatching`: all of it amounts to
`MpiMatching`, which knows no numbers on the wire, lists or threads: a message is
taken when none of its source sent before it is in transit, by the earliest receive
that accepts it.
`EveryMessageTaken`: while no send fails, every message is taken. All of these but
the types are stated for as long as no cancel has removed a receive from a queue that it had
left (`~corrupt`; in `MpiMatching`, `Undefined`): the run has the step and goes on after it, and
of a broken list the code promises nothing.

*Rendezvous.* `EveryFragmentOnOneWay`: each fragment is on exactly one way to the
buffer, counting requests, descriptors, lists, headers and completions, also
while a failed put becomes a copy. `ReceivedBeforeComplete`,
`BufferFreeOnComplete`: the two completions mean what the application takes them
to mean, though the code counts bytes. `InOneHand`: scheduling, the pending
list and completion exclude one another, so that nothing completes twice. It
does not say that a complete request is left alone. Against the comment over
`recv_request_pml_complete()` ("Request structure cannot be accessed after calling
this function any more", pml_ob1_recvreq.h:136), the FIN of a put that failed, which counts
no bytes, may come when the bytes are all there by other ways, and then `RecvFin` lowers
`pipeline_depth` of a complete request (pml_ob1_recvreq.c:189) and takes its lock's
counter up (`RecvCheck`); the model has these steps, and `InOneHand` holds over them. If the
application has freed the request by then, the code does this to whoever has it
next: returning requests to the free list is not modelled.
`PipelineBounded`: counting after sending still bounds what is under way.
`EveryTransferEnds`: no work is lost when a context finds the lock taken; two
ends without completion are named, `AckLost` (the first PUT refused) and
`Stranded` (finding 5).

*Identifiers.* `SameId`: members end with one number and stay in the same round.
`EveryEntryHasOneOwner`: nothing in use is overwritten, two threads never hold an
entry, none stays reserved, until a loop finds no free entry. `NoEarlyUse`: the barrier of `ompi_comm_activate()`
comes after every member's assignment, until such a loop too.
`EveryCreationEnds`: with creations in the
same order at each process and for each parent, all end, or a loop comes to the
end of the table; a parent left registered (the mutant of this property) keeps
the others waiting for ever. Retries only go up, so it is the end of the table that
they reach: with 8 entries and rounds in place of 6 no loop of this instance does, and without
the wait for the lowest parent one does. `ImplementsCommIds`: it amounts to one agreement on a
number free at every member. Once a table has been found full only `SameId` and the types
are stated (in `CommIds`, `NoneLeft`): an entry in use may be cleared, and a
number agreed on that is not free; members still agree on it, in one round.

*Bounds.* A window is 2 chunks instead of 8 and the reserved numbers begin at 8
instead of 240, which leaves windows 0, 2, 4 and then 0 again: three windows
before the wrap, the fewest that tell "the window before" from "the window
after", so that no number is ambiguous by the smallness of the instance. One
file of `transfer_safety` has three windows and half of a fourth, so both ends
wrap; the others end in a short chunk: alone in its window, behind a full one,
and so short that it is padded; state left by each meets the next. A direction of the link
holds 3 frames there (a window and one more: the end of one and the beginning of the next
are in flight together) and 2 in the other runs of the transfer. Chunks have 3
bytes where the length matters, so that a short chunk, a padded one and a full
one differ; 1 byte in the crash and digest runs, which are not about it.
`MAX_CORTES` = 2: a client dies and then the server, in either order, or one of
them twice. Clients come without bound. `VeredictoConCortes` is for any number of stops.

Two fragments each way let one be current and one queued, and one be sent
before and one after a break (`tcp_connect`). Three messages of one source with
`SeqSpace` = 3 and `First` = 2 cross the wrap, and two ahead of their turn is the
most that can be told apart with a gap; the other source gives a wild receive a
choice; one message is long (in `ob1_cancel` all are). Two receives are enough for
one to be matched, and cancelled before its mark, while the other is
posted behind it, and lost. Two fragments with pipelines one deep make every
pipeline stop; two shortages let a put fail, be tried again, and fail for good
(`ob1_rendezvous`). Two creations from one parent and one from another, with a
third communicator at one process only, let the tables differ, the largest
number be taken, and a number be freed meanwhile (`comm_cid`). Its tables have 6 entries:
with three communicators and three creations retries go up to the last, so that
in some behaviours a loop ends with none free. `MaxRounds` bounds only those: a
round that fails with a free entry ends higher in the table than the one before,
so there are no more than entries (`RoundsAssumption`).

Deadlock is checked in the runs of the transfer, where somebody can always act.
The other systems stop when everything bounded has happened
(`CHECK_DEADLOCK FALSE`); that they do not stop before is what their liveness
properties say.

## 4. Fairness

`FairSpec` of `RawTransfer` is used by the runs about its progress. It assumes:

- *The programs run.* WF of the client's own steps and of the server's reading
  (`PasoCliente`, `RecibirTrama`).
- *`select()` reports a frame that is there before it times out.* SF of
  `EsperaCliente`, and WF of `EsperaResumen`.
- *A wait ends.* SF of `TimeoutCliente`: `tv` is set once, before the loop
  (client.c:743), and Linux's `select()` leaves in it the time that is left, so
  frames of others do not put the timeout off for ever.
- *The link is fair* (`EquidadEnlace`): a kind of frame (a control code, a
  position in the window, an ACK the client waits for) that is sent again and
  again is received in the end. Without it a wire may lose everything.
- *Half a second is longer than any frame waits to be read* (`EsperaLarga`): a
  timeout comes over an empty link. It is a timing assumption of the programs'
  500 ms on a LAN, used only here; the safety runs have timeouts at any time.

The other modules assume less:

- `TcpEndpoint`: WF of each handler (the progress loop calls a callback whose
  event is ready) and of the kernels' completing a connect. That a process sends
  again is not assumed.
- `Ob1Matching`: WF of arrivals (transports deliver what they accepted), of a
  thread's leaving a callback (marking what it matched too), and of the communicator's
creation. That receives are
  posted is not assumed.
- `Ob1Rendezvous`: WF of each context's next step once it is in a routine, and of
  *some* context's taking an event: `opal_progress()` runs in whoever waits for
  a request, and every completion retries what waits for resources
  (`MCA_PML_OB1_PROGRESS_PENDING`). Shortages and refusals are bounded.
- `CommCid`: WF of each creation's next step: threads run and make progress in
  the allreduce. The wait for the lock and the lowest parent is a loop (comm_cid.c:184-195).

## 5. Findings

1. `digest_lost` (`ResumenComparado`): client.c:932 says "Reenvio por error de
   timeout", the test below it is for 2, the limit of packets; a timeout returns 3.
   A lost 0xFD is never sent again. (0xFE, client.c:623, is not sent again either.)
2. `short_tail` (`CopiadoConExito`): holes are filled with full chunks
   (client.c:806) and the last frame is resent with the length of a full one
   (410), also when the file ends in a short chunk: success is printed over a
   copy that is too long. The digest then tells (`InformeVeraz`).
3. `ob1_cancel` (`CancelledOrReceived`): MPI_Cancel.3in:49 says that either the
   cancellation or the communication succeeds, but not both. A receive that is
   matched by a long message whose data has not all come is marked as cancelled and
   complete (pml_ob1_recvreq.c:123), while its data goes on into the buffer.
4. `comm_order` (`ThreadsUnrestricted`): MPI_Init_thread.3in:71 says that threads
   may call MPI with no restrictions. One process creates from two communicators in
   two threads, the other from the same two in one thread, the higher first: each
   process waits for its lowest parent (comm_cid.c:190), for ever. It needs a build
   with MPI threads, and the two threads to meet.
5. `ob1_put_fallback` (`FallbackIsSent`): a put given up before the sender knows the
   receive request becomes a copy that waits for the ACK
   (pml_ob1_sendreq.c:1186-1188); when the whole message goes by put the receiver
   sends no ACK, and both requests wait for ever.

Three more disagreements have no run of their own, and are described in sections 2 and 3:
a cancel between a match and its mark, a creation that finds no free
entry, and a late FIN at a complete request.

## 6. Proofs

Every theorem holds for all values of the constants, from the named assumptions of
the modules only, which each run evaluates.

| module | theorem | states |
|---|---|---|
| `RawOrderProofs` | `TypeCorrect` | `Spec => []TypeOK` |
| | `OrdenDeTramas` | `Spec => []OrdenEnElCable` |
| | `SinError` | `Spec => []SinErrorDeSecuencia` |
| | `Acuerdo` | `Spec => []AcuerdoDeVentana` |
| `RawContentProofs` | `ContenidoDeTramas` | `Spec => []ContenidoEnOrden` |
| | `GrillaVeraz` | `Spec => []AckVeraz` |
| | `NadaSePierde` | `Spec => []NadaSeSuelta` |
| | `CuentaExacta` | `Spec => []CuentaDeBytes` |
| | `CopiaEntera` | `Spec => []CopiadoSiConservable` |
| | `VeredictoVeraz` | `Spec => []InformeVeraz` |
| | `CopiaSoloCrece` | `Spec => CopiaNuncaRetrocede` |
| | `TransferenciaEsCopia` | `Spec => ImplementaCopia` |
| `RawCrashProofs` | `TipoConCortes` | `CrashSpec => []TypeOK` |
| | `VeredictoConCortes` | `CrashSpec => []VeredictoTrasCortes` |
| `TcpEndpointProofs` | `TypeCorrect` | `Spec => []TypeOK` |
| | `AgreedConnectionInvariant` | `Spec => []AgreedConnection` |
| | `PendingIsScheduledInvariant` | `Spec => []PendingIsScheduled` |
| | `NoFragmentOvertakenInvariant` | `Spec => []NoFragmentOvertaken` |
| | `NoFragmentLostInvariant` | `Spec => []NoFragmentLost` |
| `Ob1RendezvousProofs` | `InOneHandInvariant` | `Spec => []InOneHand` |
| | `EveryFragmentOnOneWayInvariant` | `Spec => []EveryFragmentOnOneWay` |
| `Ob1CountProofs` | `ReceivedBeforeCompleteInvariant` | `Spec => []ReceivedBeforeComplete` |
| | `BufferFreeOnCompleteInvariant` | `Spec => []BufferFreeOnComplete` |
| | `PipelineBoundedInvariant` | `Spec => []PipelineBounded` |
| | `TypeCorrect` | `Spec => []TypeOK` |
| `Ob1MatchingProofs` | `TypeCorrect` | `Spec => []TypeOK` |
| | `SequenceSafe` | `Spec => []TakenInSequence` |
| | `NoLoss` | `Spec => []NoMessageLost` |
| | `NoMiss` | `Spec => []NoMissedMatch` |
| | `NoOvertaking` | `Spec => []NonOvertaking` |
| | `NoneStranded` | `Spec => []NoStrandedFragment` |
| | `MatchingIsMpi` | `Spec => ImplementsMatching` |
| `CommCidProofs` | `TypeCorrect` | `Spec => []TypeOK` |
| | `SameIdInvariant` | `Spec => []SameId` |
| | `OwnerInvariant` | `Spec => []EveryEntryHasOneOwner` |
| | `NoEarlyUseInvariant` | `Spec => []NoEarlyUse` |
| | `IdsRefinement` | `Spec => ImplementsCommIds` |

### 6.1 The transfer

*Assumptions* (`RawProtocol`, `RawLink`): the window size is positive and divides
`TOPE`, `4 * CANT_CHUNKS <= TOPE <= 240` (0xF0; a window's numbers do not meet
the control codes, and there are three windows at least); `CHUNK` is positive and
the shortest frame carries between 1 byte and a chunk; files are positive
numbers, with sizes in `Nat`; the capacity is positive.

*The argument.* `SinErrorDeSecuencia` is not inductive: whether the next chunk can
be placed depends on which chunks are in flight, and that on what the client
knew when it sent them, that is, on the ACKs that were in flight then. So
`OrdenEnElCable` describes the wire in each phase, by the order of the frames:
what belongs to an earlier phase or window is always in front.

- `InvCliente`: the client's counters. A window in memory is short only at the
  end of the file, and all of it was sent before the client waits. Needed because
  the client moves on when the grid marks what was *sent*, and the server
  moves on when it is *full*.
- `InvNombre`: while the file is named there are 0xFD of the client before, then
  0xFF of this one; the server answers 0xFF only when only 0xFF is left.
- `InvDatos`: the server is at the client's window (`AlDia`) or at the one before
  (`Atras`). In the first case, from the first grid of this window that marks
  something, only grids of this window follow: so the client cannot take a grid of
  another moment. In the second the window before is complete, or it was the last
  of the file; its chunks are in front of the client's, and no ACK of the client's
  window is in flight.
- `InvFin`, `InvResumen`, `InvExit`: chunks, then 0xFE, once; the answers to 0xFD
  come after those to 0xFE.

`RawOrderProofs` first proves the types, with the arithmetic of the numbers
(`Division`, `ProximaClienteTipo`), and then has three layers: `MismaProxima` (the two wrap formulas agree on every first number of a window,
though written differently) and the lemmas that place a chunk
(`TramoNoAvanza`, `TramoAvanza`); one lemma per server action saying what it does
to the queues and to the few variables the invariant reads (`...Efecto`); and one
lemma per phase, first for the server's steps (`ServidorNombre`,
`ServidorAlDia`, ...), then for the client's, joined in `OrdenInductivo`.

*The contents.* None of the properties about bytes is inductive either: the client
lets go of a window because a grid in flight marks what it *sent*, so the grid must
not lie; it does not lie because what is marked is in the server's buffer; and that
is the file's because each frame in flight is. `ContenidoEnOrden` says all of it, phase
by phase as `OrdenEnElCable`, which it needs to know which window a frame belongs to:

- `InvLeido`: the window in memory is the file's at `Base`, and what was sent is of it.
- `InvCopia`: what is written is the file up to the window being received; the
  chunks marked in the grid are in the buffer, and counted; the frames of the window
  begin with the bytes of the file at their place.
- `MismaVentana`: the server is at the client's window, and no grid of that window in
  flight marks more than the server has (`GrillasVeraces`). `VentanaAnterior`: it has the
  whole of the one before (`Entera`), which the client's next chunk will make it write.
- `Ultima`, `Cerrada`: the file ends in the window at hand; the copy is
  closed, and the file's where that is promised. `Resumenes`: digests in flight are those
  of the copy as it is, so a late one cannot give a wrong verdict.

A frame only *begins* with the bytes of the file: padding by the segment, and a short
chunk sent again with the length of a full one (finding 2), may put more behind them.
`Exacta` says of a window when neither happens, and only then the count of bytes
is claimed to be that of the chunks; `Conservable`, the hypothesis of
`NadaSeSuelta` and `CopiadoSiConservable`, is that of every window of the file.
TLC checked `ContenidoEnOrden` as an invariant of the instance of `transfer_safety`
before it was proved. The places of the chunks in a window are products of
variables: they have lemmas of their own (`Lugar`..., `ChunkExacto`), so that the steps
of the protocol only do linear arithmetic.

*The refinement.* In `TransferenciaEsCopia` `NuevoCliente` is `Pedir`, `RecibirNombre` is
`Abrir`, a chunk that opens the next window is `Escribir`, `RecibirFin` is
`Cerrar`, the digest read by the client is `Juzgar`; every other step leaves the
copies alone. That a 0xFF sent again does not truncate a copy with bytes in it is what
`Abrir` asks, and comes from the order of the frames.

*The crashes.* With processes that stop nothing of `OrdenEnElCable` survives: the wire
holds what any number of clients left there, and the server may start again, with no
file open, in the middle of a window. `VeredictoTrasCortes` is kept by less:
an answer the client waits for comes after all that was in front of its own frame was read.
`CrashInv` says so phase by phase:

- `NombreLimpio`: what others left, of any kind but 0xFF, is in front of this client's 0xFF;
  when an ACK of it is on its way, all that was read, and behind that ACK come only
  ACKs of windows and of 0xFF.
- `DatosLimpios`: so from there to 0xFE nothing answers a 0xFE or a 0xFD, and the
  server knows this client's file or, started again, none.
- `FinLimpio`: 0xFE is sent once and behind all the rest; if it was read, the
  wire to the server is empty.
- `ResumenLimpio`: so only 0xFD is left to read. It leaves the directory alone, and the
  digests on their way are those of the copy, whatever the copy is.

Whether the copy is whole does not matter to the argument: chunks may have been written to
a server without a file, and then the verdict is that of errors. A step of the server, of
the link, or a stop or start of the server is one of the eight effects of `Mueve`
(a frame read and answered, lost, repeated, and so on); each phase is preserved by all of
them, and by each step of the client leads to itself or the next. The hypothesis
`limpio` is the only one and is needed: section 3 says what happens without it.

### 6.2 BTL tcp

*Assumptions*: there are two processes and one of them, `Lower`, has the lower name
(`ProcAssumption`); at least one fragment each, any number of failed connects and
of breaks (`BoundAssumption`).

*The argument.* `SocketInv` says of every connection, whoever started it, which
pairs of states its ends may be in and what may then be in its two inboxes
(`Lines`; `Standing` is the table), that an endpoint is closed exactly when it
has no socket (`Closed`), that connections not yet started are untouched
(`Unused`) and that the current fragment is in front of the queue (`CurrentFirst`). It is
inductive with any number of breaks. `Settled` adds what holds only while none
has happened: an endpoint's connection is sound at both ends (`Calm`), two connected
endpoints are so on one connection (`Together`) and what waits has its send event
in the loop (`Scheduled`); `AgreedConnection` and `PendingIsScheduled` follow.
`Ways` is the invariant on contents: for each process `delivered`, what has arrived
and is not read, and what is queued, put one after the other, are an increasing
line, bounded by what was sent, and are exactly `1..sent` while no connection has
broken. A break takes a piece out of the middle (`Skips`) and nothing is ever put back:
so no number of breaks can double or reorder a fragment.

### 6.3 PML ob1, one long message

*Assumptions* (`RendezvousAssumption`): a positive length; a finite, non-empty set of
contexts at each end (the counters of the locks count them); positive depths of the pipelines.

*The argument*, in two modules, one over the other:

- `HandInv`: the lock counter of a request is above 0 exactly while somebody has
  it: the pending list, a context that schedules, or the completion, and never
  two of them. `WayInv`: for each fragment the number of ways it is on
  (in the header's data, still to ask for, in a PUT, in a refused put,
  in a put under way, behind the ACK, in a range to send, in a FRAG) plus the
  times it was written is 1 from the match on.
- `ReceivedInv` and `SentInv`: `bytes_received` and `bytes_delivered`, which the code adds up
  and compares with the length, are the cardinalities of the sets of fragments
  that arrived and of those whose data the sender no longer needs. `Mode` says how a request
  may begin (copies after an ACK, or a get) and when a FIN or an ACK may be in flight.
- `DepthInv`: the offsets do not cross, and the depth of each pipeline counts the fragments
  under way and the one just handed to the transport and not counted yet. The bound of
  `TypeOK` on the counters needs all of it.

### 6.4 Communicator identifiers

*Assumptions* (`CommAssumption`): a table of at least one entry, non-empty groups,
communicators that exist and have a member in common have different identifiers, and
parents are not freed during a creation. `ScheduleAssumption`, that members create the
children of one parent in one order, is not used: safety does not need it, only that creations end.
Nor is `RoundsAssumption`, a bound for TLC.

*The argument.* `Rounds` does not mention the tables: members of a creation are at
most a round apart, and only while the slower has not left `MPI_MIN` of a round that
failed (`NextRound`); those in the same round that have a result have the same
(`SameRound`), which was somebody's proposal (`SomebodysProposal`). `Tables` says who owns each entry: a creation
between its proposal and its end, or a communicator, and never two
(`OneOwner`), with the entry of each that joined there (`JoinedIsThere`), everything
else as at the start or freed (`RestAsBefore`, `NotFreedStays`). `IInv` is both, and what is
invariant is `FullInv`: `Rounds`, the types, and `exhausted` or `Tables`, as nothing of
`Tables` survives a loop that found no free entry. So `SameIdInvariant` and `TypeCorrect`
are for full tables too, and the others up to that loop. `IdsRefinement` maps the last
of the answers of a round that succeeds to `CommIds`'s agreement, and every other step
to a join, a use or a stutter.

### 6.5 PML ob1, matching

*Assumptions*: at least one source, tags that are integers other than `AnyTag`, posts with
a source or `AnySource`, any bounds (`SizeAssumption`); and `AheadAssumption`, a
sender is at most `SeqSpace` messages ahead of what was taken. With one more, two
messages that wait for their turn may have the same low bits, and
`TakenInSequence` is false; nothing in the code keeps a sender from it.

*What is invariant* is `Safe`: the types (`Typed`), and `corrupt` or `MatchInv`. Only
`Cancel` sets `corrupt` (`Breaks`), and only for a receive that is matched and not
marked; any other leaves the queues as `MatchInv` has them (`Leaves`). The types hold
after a queue is damaged too (`DamagedType`): a queue still has receives, in the order of
posting.

*The argument.* `TakenInSequence` speaks of low bits, so it is not inductive: that the
message with the low bits expected is the *next* one has to come from where all the
others are. `MatchInv` has these parts:

- `FirstTaken`: the messages of a source that were taken are the first ones, each
  once, and `expected_sequence` is the low bits of the next. `OthersAhead`:
  those not taken are the rest of what was sent, each once, so within
  `MaxAhead` of it; hence a message whose low bits are those expected is the next
  (`Turn`), in the fast path, in the routine, in `Drain` and in `AddComm` alike.
- `Apart`: a message not taken is in one place: with its failed sender, in the
  network, kept for the communicator, in one thread's hands or parked. `OneReceive`: what a
  receive got is in no queue and with no other receive.
- `OwnQueues`: unexpected messages wait in the order of their numbers, which is what
  `recv_req_match_specific_proc()` relies on to find the first.
- `Posted`: requests are told apart by their turn, and each is in the queue of its source
  or in that of any. `NoMissedMatch` is inductive with it: no message waits for a
  request that waits. `NonOvertaking` follows step by step from `NoMissedMatch` and
  the order of the queues: the earlier message, had it waited, would have been met first.
- `NoStrandedFragment` is inductive with `Apart`: whoever takes a message in the routine
  looks at the parked ones afterwards, and the fast path is left when there are any.

`AddComm` takes a run of messages out of `pending` at once; `RowNumbers` says that
the one `k` places after the expected one is the next but `k`, by `Turn` again.
Every step of a handler either takes a message (`Takes`) or moves one without
taking it (`Moves`), and both the preservation of `MatchInv` and the refinement go by
that: a step that takes is `Take` of `MpiMatching`, one that moves is a stutter, `AddComm` is
`Create`, `RecvReqStart` is `Post`, `SendStart` is `Send` or, when it fails, a
stutter. TLC checked each part of `MatchInv` on the instance of
`ob1_matching` before it was proved.

### 6.6 What is not proved

Every safety invariant, action property and refinement that a passing run checks is a
theorem. *Beyond the prover*, and so only model-checked: the liveness
properties (`ContenidoLlega`, `EveryFragmentDelivered`, `EveryMessageTaken`,
`EveryTransferEnds`, `EveryCreationEnds`), and what a recursive definition
computes on every input (there is none).

## 7. Not modelled

Of the file transfer: set-up calls that fail at start, `usage()`, the unused
statistics, printing, and `open()`/`write()` failing.

Of the BTL tcp: address selection, the endpoint cache, several links to one peer,
partial reads and writes of a fragment, progress threads. Of ob1: buffered and ready
sends, truncation, the weights of several transports, the packing of data
types, the checkpoint hooks. Of the identifiers: the modes through a bridge or
out-of-band messages; the allocation by blocks is behind `if (1 ||`
(comm_cid.c:167) and never runs.

Of the rest: the raw-socket MPI calls and the programs of `src/test` are
straight sequences of blocking calls, without a reply or a retry; a lost frame
stops them by construction. The sm FIFO and the OPAL LIFO are hard for the order in
which a processor's writes become visible, which interleavings of whole steps
do not show. Collectives, one-sided communication, checkpoints and ORTE are
upstream code beyond the plan, and third-party trees are not this program's.
The tree of Open MPI has half a million lines; these modules cover the parts of
it above and make no claim about the others.

## 8. Plan

*Done*: the file transfer, its refinement of `FileCopy`, its crashes; `TcpEndpoint`;
`Ob1Matching` and its refinement of `MpiMatching`; `Ob1Rendezvous`; `CommCid` and
its refinement of `CommIds`; the theorems of section 6.

*Next*, in this order:

1. Models that could follow: the sm FIFO and the OPAL LIFO over a store buffer.
