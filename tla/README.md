# A TLA+ verification of linuse

linuse is an operating-systems project of three servers and their client libraries:
**SUSE** schedules user-level threads (ULTs) and keeps semaphores, **MUSE** is a virtual
memory with segments, paging and mmap, and **SAC** is a file system on a block device
behind a FUSE driver. All of them talk over the small messaging library **biblioNOC**.

This directory models the program in TLA+, checks the models with TLC and proves theorems
about them with TLAPS. Everything is translated from the C source; the comments of the
modules and the `map` of `PROJECT.json` name the lines.

SUSE with its client library, SAC with its FUSE driver and MUSE with libMUSE are modelled;
section 7 says what is left out, and section 8 what would come next.

## 1. Inventory of the system

| Component | Source | State it keeps | Operations |
|---|---|---|---|
| SUSE server | `SUSE/src` | per process: running thread, ready list, a mutex; globally: NEW queue, blocked list, exit list, the running processes, the admissions left; per semaphore: value, maximum, queue, a mutex | handshake, create, close, join, schedule_next, wait, signal, end of connection |
| SUSE metrics | `SUSE/src` (another thread of SUSE) | an index and a length | walks the list of processes every few seconds and logs |
| hilolay, biblioSuse | `hilolay`, `biblioSuse/src` | the table of TCBs, the current ULT, one socket | init, create, yield, join, wait, signal, return |
| biblioNOC | `biblioNOC/biblioNOC` | sockets; a thread per accepted connection | connect, listen, send and receive a packet, serialise |
| MUSE server | `MUSE/src` | frames and their bitmap, swap file and its bitmap, programs, segments, page tables, heap chunks, mapped files | init, alloc, free, get, copy, map, sync, unmap, close |
| libMUSE | `libMUSE/libMUSE` | one socket | one request and response per call |
| SAC server | `SACServer/src` | the mapped disk: header, block bitmap, table of 1024 nodes, data and pointer blocks | getattr, readdir, mknod, mkdir, read, write, truncate, rename, unlink, rmdir, utimens |
| SAC client | `FUSE/src` | one socket | one request and response per FUSE call |
| examples, scripts, configuration | `hilolay-example`, `pruebaSuse`, `pruebaMuse`, `configs`, ... | none | programs that call the libraries |

How they interact. Each server runs `iniciarServidor`: it accepts for ever and dedicates one
detached pthread to each connection. A client library sends one request and blocks in `recv`
until the response (only the creation of a ULT has none). The threads of one server share all
its state; the mutexes are few:

* SUSE: `sem_mutex` in every semaphore, `being_externally_scheduled` in every process. The
  lists, `g_multiprog_max` and `running_thread` have none.
* MUSE: `g_mutexPaginas` around alloc, free, get and copy; map, sync, unmap and close run
  without it.
* SAC: none (the source has `TODO semaforos` where they would go).

What is hard, by component, and what makes it correct:

* **SUSE.** One process's request changes another process's lists: a signal releases a
  thread of any process, and a close admits the oldest NEW thread of any process. A process
  all of whose threads are blocked waits in `schedule_next` without an answer until another
  process's signal answers for it. A process may die with requests buffered and threads in
  every list. Correct means: no thread is lost or in two places; a blocked thread waits for
  one thing that can still happen; admissions are conserved; semaphores respect their bounds;
  each request gets its own answer; server and library agree on the running thread; a ready
  thread of an idle process wakes it; the two kinds of mutex never deadlock.
* **hilolay/biblioSuse.** It trusts the order of the packets (a response of another operation
  is only logged) and the thread ids the server names.
* **biblioNOC.** A packet to a closed peer disappears; a descriptor is closed twice, and its
  number may have been reused in between.
* **MUSE.** A first-fit allocator whose chunk list is kept by index arithmetic; the clock
  algorithm with modified bit; swap slots; shared mappings with a reference count changed by
  several connections. Correct means: chunks partition the segment; a frame belongs to one
  page; a page read back is the page written; the last unmap and only it frees the pages.
* **SAC.** A bitmap, a node table and two levels of pointers changed without a lock. Correct
  means: an allocated block has its bit set and one owner; a file reads what was written;
  the tree has no dangling parent; size, pointers and bitmap agree after truncate.

`PROJECT.json` lists every hazard at its line.

## 2. The models of SUSE

```
            Conexion            the two FIFO directions of each TCP connection
            /      \
        Suse        Hilolay     the server's handlers; the client's library
            \      /
          SuseSistema           composition, properties, the inductive invariant
          /            \
 SuseConcurrente       SuseProofs     handlers split at their races; proofs
          \            /
   SuseConcurrenteProofs              proofs of the interleaved server
          |
   SuseLugaresProofs                  where its threads are
 Descriptores   the process SUSE seen from its descriptors (stands alone)
      |
 DescriptoresVista      which orders of its steps do harm, and what each can damage
      |
 DescriptoresProofs     its proofs
      |
 LemasComunes   lemmas about finite sets of numbers and sequences, which section 4 uses too
```

`MCSuse`, `MCSuseConcurrente` and `MCDescriptores` hold the instances for TLC. `DescriptoresVista`
has the properties of `Descriptores`.

**`Conexion`** (`paquetes.c`, `conexiones.c`). `pedido[p]` holds the packets process `p` sent
and its server thread has not read, `respuesta[p]` those of the other direction, `abierto` the
processes whose end is open. `enviarPaquetes` uses `MSG_NOSIGNAL` and ignores errors, so that a
packet to a closed end disappears. When a process ends, what it sent stays readable; when
nothing is left `recibirArmarPaquete` returns NULL (`FinDeConexion`). Framing, serialisation
and short reads are left out: a packet is its operation and the one number or name in it.

**`Suse`** (`SUSE.c`). One action per handler, with its guard, its error paths and its
response; the actions keep the names of the functions. `etapa[p]` says which loop of
`atenderConexion` the thread of `p` is in. The lists are the code's. Three abstractions:

* the ready list, the blocked list and the exit list are sets. The last two are only
  searched. The first one is sorted on every `schedule_next` by `indice_sjf`, which weighs
  with `alpha_sjf`; `iniciar_config` never assigns that field, so any order may result, and
  `schedule_next` takes any ready thread. The NEW queue and the queues of the semaphores
  keep their order;
* times and metrics are left out;
* `proceso_padre` and `main_tid` never change after the creation: they are the constants
  `padre` and `principal`.

**`Hilolay`** (`hilolay_internal.c`, `biblioSuse.c`). `fase[p]` is either `"corriendo"` (user
code runs, and may call any operation with any argument) or the operation whose response the
process waits for. Every operation but create waits for its response, ignores its value and
then asks for the next thread, which `swap_context` installs. The program may end its current
ULT, `main` included (`hilolay_return`), and the processes in `PuedenMorir` may be killed
at any point once the creation of main has been sent. A death before that, in the handshake, ends
the server for everybody (SUSE.c:65, 481); `Descriptores` has it. A ULT joins only ULTs of its own process that exist, since `hilolay_join` takes the
structure `hilolay_create` filled in.

**`SuseSistema`** composes them: a step is one server handler or one client step. It states the
properties, the inductive invariant `Invariante` and the liveness.

**`SuseConcurrente`** refines the grain: each handler is split where it reads or writes
something that another connection may change in between. One call on a commons list, one load
or one store is a step; `g_multiprog_max--` is two; the mutexes are variables. The packet being
served stays at the head of `pedido` until its handler returns. `caido` records a NULL
dereference or a pop of an empty queue, after which the process SUSE is gone and nothing
moves. Corruption inside a commons list from two unlocked calls at once is out of the model:
list calls are atomic, and what it finds wrong is wrong even so. Four properties say what one
line of the code takes for granted of another, and do not hold: `ValorAcotado` (`SEM_MAX`),
`AdmisionesValidas` (`g_multiprog_max`), `HayQueSacar` (the NEW queue has what `queue_is_empty`
saw) and `BusquedaEncuentra` (the search of a join finds its thread). Nothing is assumed of the
interleavings; each has a `.cfg` that shows the failure (section 5). `Llamadas` restricts the
requests each program makes, which is how an instance stays small: it is a choice of client
programs, not of server behaviour. `MCSuseConcurrente` chooses at the start which programs run
(`programas`), so that one run has several systems; each of its steps is a step of
`SuseConcurrente`.

**`Descriptores`** (`conexiones.c`, `paquetes.c`, and of `SUSE.c` `atenderConexion` and the
metrics thread). The other models give each process a connection of its own for ever. The code
knows a connection by a number that the kernel gives away again: here `descriptor[n]` is whose
connection the number `n` names, `socketCliente[c]` the number the thread made for `c` works
with, and `self_socket[c]` the number SUSE keeps for the answers of others. A thread closes its
number twice, in `recibirTamPaquete` and at the end of `atenderConexion`, and removes its process
in between by comparing numbers. Of a handler only what it sends is kept, so that two operations
stand for all: a `schedule_next` that may stay without an answer (`ocioso`) and a signal that may
answer one on another connection. The metrics thread reads the length of `g_running_procs` once
and then its elements by index. A client may end at any point after `connect`, the handshake
included, and no step waits for anything that the code does not wait for.

Four orders of these steps do harm, and nothing in the server prevents them. `DescriptoresVista`
has a history variable, `faltas`, with those that have happened; it restricts no step, and each
property says which of them it survives:

| Order (`faltas`) | What it is | What it damages |
|---|---|---|
| `reuso` | accept gives to a connection a number whose former thread has closed it once and will close it again (conexiones.c:150, SUSE.c:100) | the second close ends the new connection: `CierraAlQueSeFue` fails, `DescReuso.cfg`; from then on only the types are claimed |
| `huerfano` | a signal releases a thread of a process that has ended (SUSE.c:650) | its answer goes to whoever has the number now: `RecibeSuDestinatario` fails, `DescHuerfano.cfg` |
| `salida` | a process leaves the list while the metrics walk over it (SUSE.c:515) | `list_get` returns NULL, which is used, and the server falls: `CaidaExplicada` names it |
| `arranque` | a client ends before it created its main thread (SUSE.c:65, 481) | the server uses a NULL packet and falls: `CaidaExplicada` names it |

None is rare: a program that is killed is enough for the last three. What the properties say is
how far each goes. `HiloLeeLoSuyo`: only a `reuso` takes a connection from its thread, so the
other three cannot. `RespuestaPropia`: only `reuso` and `huerfano` send a process what it did not
ask for. `ListaDeVivos`: only a `reuso` makes a process leave the list for another.
`CaidaExplicada`: before a `reuso` the server falls by `arranque` or `salida` and by nothing else.

## 3. The models of SAC

```
        SistemaArchivos   a tree of files; a call takes effect at once
              ^
              | implements
           SacVista       owners of blocks, the refinement mapping, the callbacks
              |
             Sac          the server's handlers, the connections, the kernel's rules
```

`MCSac` holds the instances, and `SacProofs` (with `LemasComunes`) proves the safety properties of
`SacVista` (section 6).

**`Sac`** (`sac_fs_handlers.c`, `SAC-Server.c`, `sac_cli.c`). The variables are the mapped file:
`tabla` and `blk_indirect` are the fields of the nodes, `bitmap` the set of blocks whose bit is
set, `disco` the cells of the blocks. `send_request` of the driver opens a connection for each
call, so one thread `t` of `Hilos` stands for a thread of the driver, its connection and the
server's thread at the other end; `pc[t]` says where that thread is and `local[t]` holds its
locals. A handler is one step, with these exceptions, because no lock protects anything:

* a node or a block that was found is taken in a later step (`Crear` and `occupy_node`,
  `BuscarDatablock` and `TomarDatablock`);
* the loops of `reservarBloques` and `liberarBloques` take a step per block;
* the size is written after the loops.

Sizes and offsets count cells of four bytes, so that a cell of a block holds either a pointer
or a datum and an error in either direction is visible: a file whose pointer leads to another
file's block of pointers reads pointers. A block has `PTRBYINDIRECT` cells, and the divisions
and remainders of the code are kept. Quirks are kept, too: the node of index -1 that a failed
search yields is the last block of the bitmap, whose first byte is its `state`; the `memset` of
`occupy_node` clears a quarter of the pointers; nothing clears a block of data; `utimens` gets
the time of the last access (`sac_cli.c:168`, under a comment that says which one is which).

What the server relies on is `KernelPermite`. A part is what the kernel guarantees to a FUSE
file system: it looks a path up before it calls, so that it passes no directory to a call on
files, removes directories that exist, does not move a directory below itself and reads within
the size it was told. The other part, `Promesas`, is what the server leaves to its users and
each `.cfg` lists: room for what is written (`espacio`, `maximo`), a free node (`nodos`), an
empty directory to remove (`vacio`), a free name to move to (`destino`), and one mount, whose
kernel locks the written file and the changed directory (`montaje`, `Excluye`). What happens
without each of them is in the list of hazards.

**`SistemaArchivos`** says what a client may expect and knows nothing of nodes, blocks or
pointers: a function from paths to files, where each call answers what the tree says and
changes only what it names. A call takes effect in one step between its request and its answer.
What a file grows by is unspecified, since the code does not clear blocks.

**`SacVista`** maps one to the other. The paths of a node come from the parent indices, the data
of a file from its size and two levels of pointers. The effect of a call is where the mapped
tree changes: for a creation `occupy_node`, for a removal the write of `state`, before its
blocks are freed; for a truncation that shrinks, its first step (`Recorta` cuts the file while
its blocks are given back), for one that grows the write of the size, for a write the copy. The
last field of the mapping, `ValorVisto`, is what the callback of the driver hands to FUSE.
`CantDatablocks` says how many blocks a file holds at each point of a loop; with it
`DuenioUnico` and `BitmapExacto` are stated at every step and not only between calls.

## 4. The models of MUSE

```
  MemoriaMuse    disjoint portions that      ImagenesCompartidas  memory that those
       ^         keep what is copied               ^              who map a name share
       | implements                                | implements
   MuseVista     what the tables satisfy      MapasVista      what mappings satisfy
       |                                           |      \
      Muse       heaps, the clock, the swap        |     MapasArchivo   what libMUSE.h
                                                   |                    promises of files
                                              MuseMapas       map, sync, unmap, faults
```

`MuseProofs` proves what `MuseVista` states, and `MapasProofs` what `MapasVista` states, the two
arrows "implements" included (both with `LemasComunes`).

`MCMuse`, `MCMapas` and `MCMapasArchivo` hold the instances. The two models share no state: the
first has programs with a heap only, the second programs with a mapped file only, in a memory with a
frame for every page, so that the clock, which `Muse` has, never runs.

**`Muse`** (`MUSE.c`, `operaciones.c`, `manejoEstructuras.c`, `libMUSE.c`). A program `p` stands
for a client, its connection and the thread that attends it. Without mapped files a program has
at most one segment and its base is 0, so that `heaps[p]`, `limiteLogico[p]` and
`mem.tablaPaginas[p]` are the segment. The record `mem` is what the functions on frames and
pages pass to one another: the bitmaps (`marcos`, `swap`) as sets of bits at 1, the two lists
of administrative pages as functions from frames (`tablasDePaginas`) and slots
(`paginasEnSwap`), the contents, the swap file and the hand of the clock.

alloc, free, get and copy run under `g_mutexPaginas`; a loop over pages takes a step per page.
`procesarAlloc` decides on the chunks, `allocarEnPaginasNuevas` adds a page, with an eviction
when no frame is free, and `enviarRespuestaAlloc` moves the limit, posts the semaphore and
answers. `pageFault` brings a page in and moves its bytes. `FinalizarPrograma` takes the program
off the list, without the semaphore, and `destruirPagina` gives its pages back one by one. Other
facts of the code that are kept: the first content a frame gets stays with it, so a new page
may hold old bytes; `flagUso` is set when a page comes in and never on an access; the bit of a
slot is never cleared when its page comes back; the search of page 0 in the swap returns no
value (its closure compares `nroPagina` with NULL, manejoEstructuras.c:296); a page that is destroyed while it is out frees the slot whose
number is that of its last frame.

`ClockModificado` is a loop that calls itself when it reaches the last frame. The model has its
result: the first page from the hand on with `flagUso` at 0, or, if there is none, the first
one from frame 0 after the flags passed over were cleared. `caida` records the first access
without a meaning: a write to slot -1 when the swap has run out, a NULL pointer. From then on
nothing moves.

A byte is the value copied and its position in the client's buffer, so that an offset that is
wrong, a page that is not its own or a stale frame shows in what a get returns. The limit of the
list of segments, which only places mapped files, and the flag of modification, which nothing
reads, are left out.

**Pages larger than a header.** With `PAGE_SIZE=4` of `configs/muse.cfg` page 0 of a program holds
only bytes of its first header, which lies at 0 to 4: no request touches it, and the search of page
0 does no harm. That is an accident of the configuration. With `PAGE_SIZE=16` of
`configs/SUSE/suseServer-stress.cfg` page 0 has a portion, and once the clock has sent it to the
swap the next copy or get of it dereferences a NULL: `MusePaginaCero.cfg` shows it (`PaginaVuelve`),
with programs that are prudent in every other respect. `CaidaSoloPorSwap`, the refinement of
`MemoriaMuse` and the theorems about them therefore hold only for pages of at most five bytes.

**Prudent programs.** `pruebaMuse` asks always for one size, frees the newest portion first and
closes with nothing reserved; `Prudentes` are the programs that do so, and that moreover close
when nobody has anything reserved. The allocator needs the first part: a hole is appended at the
end of the list of chunks from whose order addresses are computed, which is right only if the
chunk that was cut is the last one (`muse_heap` shows what happens otherwise). Even so a size may leave a rest
of a page that is a free chunk of its own but smaller than a portion; `allocarHeapNuevo` then grows
that chunk and writes down only the bytes it lacked (operaciones.c:332), and the next portion lies
inside. `MuseHeap.cfg` shows this, too, with `Prudentes = TRUE`, `Tamanios <- MCTamanioTrece`,
`lengthPagina = 16`, the page of `configs/SUSE/suseServer-stress.cfg`, `g_cantidadFrames = 4` and
`maxPaginasEnSwap = 0`. With the page of `configs/muse.cfg` there is no such rest. The close needs
the second part: it runs without the semaphore, and frees slots of swap by the numbers of frames.
A program may also disconnect at any time: its memory then stays for ever.

**`MuseVista`** states what the tables owe one another and maps the paged memory to
`MemoriaMuse`: the byte at an address is the one in the frame of its page, or in the slot that
`paginasEnSwap` gives for it. A copy takes effect when it takes the semaphore, and a get when it
has read its last page.

**`MuseMapas`** (`operaciones.c:166-252`, `509-672`, `manejoEstructuras.c`). `mapeos[p]` is the
`t_mapAbierto` that `p` created, `mapeosAbiertosCompartidos` the list in which `muse_map` looks a
path up, `segmentos[p]` the segment of `p`, and `marcos`, `tablasDePaginas` and
`contenidoFrames` are the memory. Only get and copy hold `g_mutexPaginas`: map, sync and unmap
hold nothing, so they are split at every access to what another thread may change. A map
searches the list in one step and then adds a mapping, or loads and stores the count
(`MapSumar`, `MapGuardar`) of the one it found; an unmap tests the count, and then loads and
stores it, or takes the mapping off the list and gives its pages back one by one
(`destruirPagina`). A fault tests `flagPresencia` before it takes `semaforoPaginas`
(`MirarPresencia`, `TraerPaginaDeMap`). Facts of the code that are kept: a file is mapped with
`MAP_ANON`, so that what a program sees at first is zeros and nothing reaches the file, against
libMUSE.h (`MapasArchivo`, below); a sync
writes what it read to the beginning of the mapping's content, wherever it was read; the limit
of a new mapping counts its pages twice, so that an access past the end of the segment
passes the check and finds no page (`PaginaQueNoHay`); a client that disconnects stays a user.
Locks are missing, so the passing run needs programs that do two things. `Coordinados`: they take
turns, that is, there are no two maps or unmaps in progress at once (`Turno`) and no unmap while a
program of another file works on its pages, and back (`Quietos`, `NadieDevuelve`). `SyncSoloUsadas`: a sync reaches
only pages that are already in (`YaUsadas`). What two programs of one file do with get, copy and
sync otherwise interleaves freely. The run `muse_desmapeo` shows what happens without the first, and
`MuseSyncCopia.cfg` without the second.

**`MapasVista`** and **`ImagenesCompartidas`**. The specification says what the mappings are to
their users, which is less than libMUSE.h promises: an image appears with its first user, in
zeros, keeps what any user copies and disappears with its last user. It says nothing of files. The
image of a shared file is mapped to the pages of the mapping all its users have, in their frames
or, before they come in, in the mapping's content.

**`MapasArchivo`** states what libMUSE.h does promise of the file, beside the steps of `MuseMapas`
and restricting none: an image begins with the content of its file (59, with zeros only past the
file's end, 66) and a get reads what was copied (49), `LeeLoPrometido`; and a sync writes to the
file (72), `SyncLlegaAlArchivo`. Neither holds: the memory is anonymous (run `muse_archivo`,
`MuseDescarga.cfg`), and a sync may bring a page in again under a copy (`MuseSyncCopia.cfg`).
Nor does `MismoMapeo` (all who map a file shared have one mapping, 64) when another program maps
it private (`MuseNombre.cfg`).

## 5. What is checked

Passing runs:

| Run | Instance | Shows |
|---|---|---|
| `suse_dos_procesos` | 2 processes, 3 + 2 threads, the second may be killed; 1 admission, 1 semaphore of maximum 1 and a name that is no semaphore; 609k states | types; `SemaforoConsistente`; `UnSoloLugar`; `EsperaUnica`; `MultiprogConservado`; `NewSoloSinLugar`; `RespuestaCorresponde`; `MismoHilo`; `SinRunningEspera`; `ParoSoloPorAdmision`; and `Invariante`, the invariant of the proofs |
| `suse_progreso` | 2 + 1 threads, as many admissions as threads, one death; fairness; 23k states | `RespuestaLlega`, `ListoCorre`, `LimpiezaLlega` |
| `conc_hilos` | interleaved handlers, two choices of programs: 2 processes with 2 threads each that use one semaphore and compete for one admission, or 3 processes of which two signal two semaphores on which the threads of the third wait; 376k states | `ColaSoloEnCero`, `EsperaNoPerdida`, `NoEnDosListas`, `RunningUnico`, `SinEsperaCircular`, types |
| `descriptores` | 3 clients that connect, work and end, on 3 numbers, with nothing assumed of the order of accept, closes, signals and metrics; 961k states | `HiloLeeLoSuyo`, `RespuestaPropia`, `ListaDeVivos`, `CaidaExplicada`, types |
| `sac_arbol` | one client thread, 3 nodes of 2 pointers, blocks of 2 cells, paths of up to 3 names, 7 changes to files and directories; 385k states | `DuenioUnico`, `BitmapExacto`, `ImplementaArbol`, types |
| `muse_memoria` | 2 prudent programs with portions of 4 and 2 bytes, two each, on 3 frames and 5 slots, pages of 4 bytes; 133k states | `TablasConsistentes`, `CaidaSoloPorSwap`, `FramesDevueltos`, `PorcionesAccesibles`, `ImplementaMemoria`, types |
| `muse_mapeos` | 3 programs that take turns and sync what they have used, two of which map one file of two pages shared and the third another one private; accesses across pages and past the end; 217k states | `MapeosConsistentes`, `CierraElUltimo`, `MarcosExactos`, `ImplementaImagenes`, types |

The bounds are chosen for the contention they allow. One admission for three additional
threads makes NEW threads of both processes queue; a semaphore of maximum 1 that starts at 0
meets both of its limits; three threads in one process let two be blocked, on different things,
while the third runs or ends; two signallers and one idle process are what
`being_externally_scheduled` is for. No variable is cut: creations are bounded by the set of
threads and each process has at most one request besides its creations, so the state space is
finite. One exception is `conc_hilos`: after a race past `SEM_MAX` the test with `==`
(SUSE.c:359) never holds again and the value has no bound, so the constraint `ExcesoAcotado`
stops one above the maximum (two signals that both compare before either takes the mutex). The other is `descriptores`, below.

In the runs of SAC a file of five cells has three data blocks and two indirect ones, so that
both loops cross the border of an indirect block in both directions, stop on either side of it
and go on over it; two such files fill and share the disk, and nodes and blocks are reused in
another order than they were freed. Three nodes hold a directory in a directory with a file in
it, which moves. `MaxCambios` bounds the requests that change something: seven are enough to
create two files, grow, cut, remove and create again.

In `muse_memoria` the pages have the size of `configs/muse.cfg` and the header its five bytes. A
portion of 4 bytes lies in two pages, so that a copy may evict, on its second page, the page it
has just written; the two programs together have nine pages for three frames, so that nearly
every access faults. As no slot is ever used twice, five slots allow five evictions and the
behaviours end; what follows the sixth is undefined (`caida`). A chunk that is reused is at most
two portions and a header long: `cambiarFramesPorHeap`, which acts on reused chunks from 15
bytes on, has no page to change there.

In `descriptores` three clients are enough for a number to be given away while its first owner's
structures still hold it, and while a third process answers on it. `MCCotas` bounds the run: the
third client connects when the thread of another is closing, nothing is followed after the fall of
the server, and after a reuse, which leaves only the types to be kept, no second harmful order is.
Each client has at most one request in flight, so nothing else needs a bound.

In `muse_mapeos` each program maps once and unmaps once, in any order with its accesses: the
second program joins a mapping or makes a new one after the first one ended, and either is the
last user. An access lies across the two pages, in the first, or begins in the last byte and
goes past the end. With the two pages in frames taken in either order, a wrong offset or a
stale frame shows in what the other program reads.

Runs where the program contradicts what its source says of it (each one a finding in
`PROJECT.json`, with the line it contradicts):

| Run | What happens |
|---|---|
| `conc_despertar` | lost wakeup: a signal between the test of the ready list (301) and `running_thread = NULL` (302) |
| `sac_dos_hilos` | two threads of one mount write two files; both find the same free block before either sets its bit |
| `muse_heap` | a hole cut off a reused chunk goes to the end of the list of chunks: the next `muse_alloc` answers the address of a portion that is in use |
| `muse_archivo` | a program maps a file that has data and reads zeros: the memory is not the file's (`MAP_ANON`, operaciones.c:405) |
| `muse_desmapeo` | a map finds the mapping that another program is closing: its user count is raised on a mapping that is freed under it |

More counterexamples. These are not in the list of runs, which keeps to one for each part of the
system; each takes TLC a few seconds (`tlc -config X.cfg M`) and ends in the violation named:

| `.cfg`, module | Violated | What happens |
|---|---|---|
| `SuseAdmision`, `MCSuse` | `ListoCorre` | a close admits a NEW thread of a process that waits in `schedule_next` (SUSE.c:216); nobody answers, and the process hangs with a ready thread |
| `SuseJoinNew`, `MCSuse` | `NoSeBuscaEnNew` | a join finds a thread that is still in NEW. The comment of the search (SUSE.c:25-26) says that it does not look there and gives NULL, and the code (345) does; the callers need the code's version, since 261 uses the result without a test |
| `ConcMaximo`, `MCSuseConcurrente` | `ValorAcotado` | two signals compare with `SEM_MAX` (359) before either takes the mutex: the value goes past it, and then has no bound |
| `ConcAdmision`, `MCSuseConcurrente` | `AdmisionesValidas` | two creations test `g_multiprog_max` (156) before either decrements it (165): one admission too many |
| `ConcCierres`, `MCSuseConcurrente` | `HayQueSacar` | two closes see the last NEW thread (206); the second pops NULL (212) and writes to it |
| `ConcJoin`, `MCSuseConcurrente` | `BusquedaEncuentra` | a close moves the thread from NEW to a ready list that the search of a join has passed: it finds none, and the NULL is used (261) |
| `DescReuso`, `MCDescriptores` | `CierraAlQueSeFue` | accept gives away a number between its two closes: the second ends the new connection |
| `DescHuerfano`, `MCDescriptores` | `RecibeSuDestinatario` | a signal releases a thread of a dead process, whose number is another process's by now: that one takes the answer for its own |
| `MusePaginaCero`, `MCMuse` | `PaginaVuelve` | with pages of 16 bytes: page 0, sent to the swap, is not found there because its number is taken for NULL (manejoEstructuras.c:296), and MUSE falls |
| `MuseDescarga`, `MCMapasArchivo` | `SyncLlegaAlArchivo` | a sync returns 0 and the file is as before |
| `MuseSyncCopia`, `MCMapasArchivo` | `LeeLoPrometido` | a sync and a copy fault on one page at once (operaciones.c:588); it comes in twice, and what was copied is lost |
| `MuseNombre`, `MCMapasArchivo` | `MismoMapeo` | the unmap of a private mapping takes the shared mapping of the same file off the list (operaciones.c:242): the next program to map it shared does not share it |

The instances of races are small systems in which the race is possible and little else: two or
three processes, the requests that take part in it and one semaphore or one file.

So the handlers of SUSE are right one at a time: everything in section 6 holds when they do not
interleave, except the wake-up that a close forgets. `ParoSoloPorAdmision` says that this is the only
way in which a process is left waiting with a ready thread, and `SuseAdmision.cfg` that it is one.
`suse_progreso` therefore gives every thread an admission: the NEW queue stays empty and the property
holds. What the interleaved server adds is `conc_despertar` and the four instances `Conc*` of the
second table; the properties of `conc_hilos`, on semaphores, blocked threads, lists and
mutexes, hold in every interleaving. One more race of this kind is in reach of the model and has no
property: the `estado = READY` that a signal writes after it published the thread.
SAC, too, is right for one thread under its promises, and `sac_dos_hilos` shows that the locks of
the kernel are not enough for two.

**Fairness.** `FairSpec` assumes weak fairness of the server thread of each connection (a
pthread that blocks only in `recv` and in mutexes that are always released) and of the library
code of each process. Nothing is assumed of the program: it may compute for ever, never signal,
or never end. That is why liveness speaks of answers and not of threads ending. The fair
specification of the interleaved server, `FairSpecC`, makes the same assumption, step by step.

## 6. What is proved

`SuseProofs` proves `InvarianteSiempre`: `Spec => []Invariante`, for every set of processes,
every finite set of threads, every configuration of semaphores, every `MAX_MULTIPROG` and any
set of processes that may die. The assumptions are those the modules declare: each thread has
one process, each process has a main thread, the initial value of a semaphore does not exceed
its maximum (the server does not check its configuration; with a larger value a semaphore would
start, and stay, above `SEM_MAX`).

The properties are not inductive by themselves: whether a wait uses a NULL running thread
depends on what is in flight. `Invariante` adds:

* `InvPedido`: what a process has buffered is creations of threads not yet created, then at
  most one other request;
* `InvFase`: a waiting process's request is still buffered (`Pendiente`), or answered
  (`Respondido`), or is the `schedule_next` of an idle process (`SinNadaQueEjecutar`); a process
  that runs user code runs the thread the server believes it runs;
* `InvEtapa`: what the stage of the server's thread says of its threads and its first packet;
* `InvLista`, `InvPropias`: which list holds a thread, by its `estado`. A thread a close
  released from a join keeps `estado` BLOCKED in the ready list until it runs
  (`trancisionar_bloqueado_a_ready` does not write it), which these have to allow.

The proof has a lemma per action (`PasoThreadCreate`, `PasoThreadClose`, ...), built on lemmas
about queues (`Agregar`, `Quitar`), about what a send, a read and a response do to the protocol
(`Envio`, `Consumo`, `Entrega`, `OperacionRespondida`), about the count of admitted threads
(`AdmitidosMas`, `AdmitidosMenos`, `AdmitidosReemplazo`) and frames for the parts a step leaves
alone (`MarcoProtocolo`, `MarcoServidor`, `MarcoEsperas`). The hardest case is
`PasoSignalExterno`: one step that writes to two connections and the running slot of a third
party.

The last section of `SuseProofs` derives the properties: types, semaphores, one place, one wait, admissions, NEW,
responses, same thread, no NULL running thread, idle processes wait, and, as action properties, the
life cycle (`CicloDeVida`) and `ParoSoloPorAdmision`. The last one needs a small invariant of its own,
`EsperaALosSuyos`: who waits for the end of a thread is of its process, so that what a close releases
from a join belongs to a process that runs.

`SuseConcurrenteProofs` proves the interleaved server: `SpecC => []InvarianteC`
(`InvarianteCTheorem`), from the same assumptions. `Invariante` does not survive interleaving, and
`conc_despertar` shows that parts of it cannot: the proof relies on no value of `estado` but
RUNNING, and says nothing of where a thread is. What remains is what the two mutexes and the
protocol give:

* `TiposC`; `InvPedidoC`, `InvFaseC`, `InvEtapaC`: as above, weakened to what holds while
  a handler is half done and its packet still at the head of `pedido`;
* `InvListasC`: whoever is in a list, in a queue or running is a thread the server knows
  (`Conocido`), so that its process has a connection, a mutex and a main thread;
* `InvPunto`: what a handler may rely on between two of its steps: that it holds the mutex, the
  value or the queue it has tested, and that the process it is going to answer for is still idle;
* `MutexEnUso`: a mutex is held only by a handler at a point under it; `ColaSoloEnCero` and
  `RunningUnico`, which need each other's points.

The proof has a lemma per step of each handler over a few frames. From the invariant follow
`TypeOKCTheorem` (the value of a semaphore, tested and decremented in two steps, stays in the
naturals), `ColaSoloEnCeroTheorem`, `RunningUnicoTheorem`, `RespuestaCorrespondeC` (the
interleaved server keeps the protocol of the responses), `MutexEnUsoTheorem` and
`SinEsperaCircularTheorem`: a holder of `sem_mutex` waits at most for
`being_externally_scheduled`, whose holders wait for nothing.

`SuseLugaresProofs` adds where the threads of the interleaved server are, again from the
declared assumptions only: `SpecC => []InvLugares` (`InvLugaresTheorem`). Between two lists a
thread is in none: the handler that took it out of one has it in a local variable, or its request
has not been read. So `InvLugares` counts *places* (`Puesto`): the lists (`ready`, `new`,
`exit`), the queue of a semaphore (`cola`), the joiners of a thread (`join`), a buffered creation
(`pedida`), running (`corre`), a join between its two writes (`une`), the local variable of a
signal up to its removal from `g_blocked_threads` (`suelta`), and that of a signal or a close
after it (`mano`). It says:

* `UnPuesto`: no thread is in two places, nor twice in a queue (`SinRepetidos`);
* `BloqueadosRetenidos`: `g_blocked_threads` has exactly the threads in a place that still has
  to release them (`une`, `cola`, `join`, `suelta`);
* `CreacionesDistintas`, `PuntoDeSignal`: no creation is buffered twice, and only a signal holds
  a blocked thread.

`corre` is the delicate one, because `running_thread` keeps its value after its thread blocked or
ended: a thread runs while its `estado` is RUNNING, its process runs user code, or the request it
made has not yet blocked or ended it (`Ejecuta`). A step either leaves a thread where it was
(`Conserva`) or takes it to one other place (`Muda`), and `PuestosTrasPaso` turns that into the
invariant; there is a lemma per handler. `EsperaNoPerdidaTheorem` follows (a blocked thread that
no handler has in its hands waits in one queue or for one thread only), and
`NoEnDosListasTheorem`. TLC checked `InvLugares` over the states of `conc_hilos` first, and with
processes that may die.

`DescriptoresProofs` proves `SpecV => []InvarianteD` (`InvarianteCorrecto`) for any finite set of
clients and any set of numbers at least as large, with no hypothesis on the order of steps: the
harmful ones are in the specification, and `faltas` remembers them. No property of the run is
inductive: that a close hits nobody depends on whose the number is, and that on which threads are
at which of their two closes. `InvarianteD` has four parts, by what has happened:

* whatever happens, `Base`: the types, that a connection is named by one number at most
  (`UnNumero`), and that one accept has not returned has no thread and is pending once
  (`PorAceptar`);
* without a `reuso`, `SinReuso`: a thread that is alive is the only one whose number names its
  connection (`CadaHiloLoSuyo`), threads that may still use their numbers have different ones
  (`NumerosDistintos`), the list of processes has the attended ones (`Lista`), and the packets of a
  client come to its thread in order (`Orden`), with answers to dead processes or without; and
  `Explicada`: a client that ended before it created main (`Temprano`) is in `faltas`, and so is
  what made the server fall;
* without a `reuso` and a `huerfano`, `Cursos`: what is in flight for each client, by what its
  thread expects (`EnHandshake`, `EnCreateMain`, `EnBucle`). An operation is unread, in the hands of
  the thread, left with an idle process, or answered, and one of these only (`EntrePaquetes`);
* without a `salida`, `Medida`: the metrics find as many processes as they counted.

There is a lemma per action. The kernel's lowest free number exists because an injection of the
numbers into the other clients would not fit (`HayLibre`, from the library's facts on finite
sets), and a finite set of numbers has a least one (`Minimo`, by counting, since the library's
induction theorems, which take an operator, cannot be used). The lemmas are grouped by the part they
keep: `Base...`, `Reuso...` and `Temprano...` (without a `reuso`), `Curso...` (the packets in flight).
`ReusoCerrarConexion` shows that the second close finds its number free, and `ReusoSacarProceso` that
the process removed is the one that left. The theorems are `TipoDescriptores`, `HilosLeenLoSuyo`,
`RespuestasPropias`, `ListasDeVivos` and `CaidasExplicadas`, each from the part that what it says
survives.

`MapasProofs` proves the mapped files of MUSE, `Coordinados /\ SyncSoloUsadas => (Spec =>
[]InvarianteM)` (`InvarianteMTheorem`), for any finite set of programs, any paths and flags, any number
of pages and frames, any accesses and any syncs of pages that are in. The two are hypotheses of each
theorem and exclude real races: the handlers of map and unmap take no lock, and the run `muse_desmapeo`
shows what happens to programs that do not take turns; a sync takes no semaphore, and
`MuseSyncCopia.cfg` shows what one of a page that is out may do. The theorems are about programs
that avoid both, not about the locking of MUSE. Otherwise only `MapasAssumption` is used (sizes, and that a sync stays within
the file) and `NadaAssumption` (NULL is the address of no structure and no file's content); that there is a frame for
each page (`FramesAlcanzan`) concerns the runs, since without a free frame `TraerPaginaDeMap` has
no step in this model. `InvarianteM` has:

* `TiposM` and `MutexM`; `Exclusion`: one map or unmap at a time;
* `InvMapeos`, `InvCuentas`: a segment is of a live mapping of its file, and each live mapping
  counts its users, of whom there is at least one. A map fills the segment and the count in one
  of its steps (`Mapeado`), so the two agree between steps although the count was loaded before;
* `InvLista`: the list has one mapping for each name, in use and shared, never one whose pages are
  being given back;
* for each program, `InvSegmento` (which stages have a segment), `InvLeido` (what a map or an unmap
  read of the list or of a count still stands when it uses it, which is what turns are for),
  `InvPagina` (the page a request has found exists, and is in memory once it has been brought),
  and `InvSync` (a sync meets only pages that are in, and has read a page for each it has passed);
* `InvMarcos`: the bits of the frames, the entries of the frames and the pages of the mappings
  name each other one to one, except that a mapping that is being closed has given back its first
  pages (`Presentes`).

From it follow `TypeOKMapasTheorem` (with `CuentaDeLiberados`, the count that a freed mapping
keeps), `CierraElUltimoTheorem` and `MarcosExactosTheorem`. `MapeosConsistentesTheorem` needs one
hypothesis more, `SinMezcla`: no file is mapped shared by one program and private by another. The
unmap of a private mapping takes the first mapping of that name off the list (`borrarMapeoAbierto`
looks for the path), which then is the shared one of somebody else: `MuseNombre.cfg` shows what
comes of it, and the instance of `muse_mapeos` does not mix them. Under `SinMezcla`,
`InvNombres` is kept (shared segments of one file are of one mapping, and it is in the list).
There are two or three lemmas per action over a few frames (a step that touches only the pages of
one mapping, only a count, only who is where), and `Minimo` and `Maximo` of `LemasComunes`
give the first free frame and the bound in `MarcosExactos`. TLC checked `InvarianteM` and
`InvNombres` over the states of `muse_mapeos` first.

`ImplementaImagenesTheorem` is the refinement, `Coordinados /\ SyncSoloUsadas /\ SinMezcla /\
NombresAparte => (Spec => ImplementaImagenes)`: what programs read, copy and map is what
`ImagenesCompartidas` says, a memory in zeros that its users share. It is not what libMUSE.h promises of
a file, which the code does not keep (`MapasArchivo`, section 4).
`NombresAparte` says that the names of files are neither NULL nor programs, which name the images of
shared and of private mappings. It needs a third invariant, `InvImagenes`, on contents:

* `SinTraer`: a page that has not come in has its own number, so that the fault finds its content
  (`traerContenidoMap` looks for it at the number of its last frame);
* `InvAcceso`: a get or a copy has gone over the pages from that of its address on, and the pages it
  has passed exist;
* `InvCopiado`, `InvObtenido`: up to the address it has reached (`Llegado`), what a copy writes is in
  the mapping, and what a get has read is what the mapping has.

The bytes of a mapping are in frames or in its content, page by page (`ByteEn`), and each action keeps
them (`ByteIgual`) except the copy, which changes those of its page (`CopiaPagina`): a fault moves
them, and a sync overwrites content that nobody reads, since its pages are in memory. The images show a
copy whole from when it takes the semaphore (`VistoEn`), so its pages are stutters (`CopiaVista`) and its
end is one too, because it has then written every byte that there is (`CopiaAcabada`). The abstract
steps are the last page of a get (`VeUsar`), the answer that hands it over (`VeSoltar`), a copy that
takes the semaphore (`VeAcceder`), a map that fills the segment (`VeMapGuardar`, `VeMapNuevo`) and an
unmap that begins (`VeDeUnMap`); all others are stutters. TLC checked `InvImagenes` over the states of
`muse_mapeos` first.

`SacProofs` proves the blocks of SAC, `UnHilo /\ HayLugar => (Spec => []InvarianteS)`
(`InvarianteSTheorem`), for a table, a disk, blocks and nodes of any size and any set of requests
of the form the driver sends (`PedidosAssumption`). Two hypotheses stand before each theorem.
`UnHilo`: one thread at a time is served, because between the search of a free block and the
setting of its bit there is no lock; `sac_dos_hilos` is the counterexample with two. `HayLugar`:
the users keep three of the `Promesas` of section 3 (`nodos`, `espacio`, `maximo`), since the
server refuses neither a write to a full disk nor a create in a full table. The other three
(`montaje`, `vacio`, `destino`) are not needed: a directory removed with its children, or a
name that appears twice, loses or confuses files, but never their blocks. `InvarianteS` has:

* `TiposS`; `InvTamanio`: no file has more blocks than its pointers reach;
* `DuenioUnico` and `BitmapExacto`, as the run states them, of the blocks that
  `CantDatablocks` and `CantIndirectos` say a file has at that point of its loop;
* for the thread, `InvPunto` (the request each point serves, that the node it found is of the
  state that request needs, and that what the kernel permitted is still permitted);
* `InvReserva` and `InvLiberacion`: `dentro` and `indir`, the position within the indirect block
  and its index, which the loops of `reservarBloques` and `liberarBloques` step by hand,
  are the remainder and the quotient of the number of the next block, or of the last one;
* `InvEspacio`: as many blocks are free as the loop still takes, those of pointers included. What
  `is_enough_blocks` tested once, before the loop, therefore holds at each of its turns.

The bits and the owners follow from lemmas that say what one place more, or some
fewer, or the same ones do to both (`UnLugarMas`, `LugaresMenos`, `MismosDuenios`), and which
places those are (`MasDato`, `MasIndirecto`, `MenosDato`, `MenosDatoEIndirecto`). Every count is a rounded-up
quotient (`Techo`), so that the arithmetic is in a few lemmas on it (`TechoEn`, `TechoMultiplo`,
`TechoOrden`, `DentroDe`) and in none of the steps. `Padre` and `NombresTipo` are about recursive
functions, whose values the prover does not give: `LemasComunes` has `Induccion`, on a set
instead of a predicate (from `Minimo`), and from it `Recursion`, that a function with those
values exists. From the invariant follow `TypeOKSacTheorem`, `DuenioUnicoTheorem` and
`BitmapExactoTheorem`. TLC checked `InvarianteS` over the states of `sac_arbol` first.

`MuseProofs` proves the heaps of MUSE, for any programs, frames and slots, in four invariants, each
on top of the one before and each with the hypotheses it needs:

* `Hipotesis => (Spec => []InvTablas)` (`InvTablasTheorem`): the programs are prudent (`Prudentes`,
  section 4; `muse_heap` is the counterexample without), no request is larger than a page, and the
  header has at most 6 bytes. The page, because a chunk of more than a page that is taken again has
  whole pages inside, and `cambiarFramesPorHeap` marks these as present wherever they are (the
  hazard at operaciones.c:503). The header (it has 5), because the code cuts a chunk when "more than
  5" bytes are left: a larger one would leave a free chunk of negative size.
* `HipotesisHeap => (Spec => []InvPorciones)` (`InvPorcionesTheorem`): moreover each program asks for
  one size (`UnTamanio`, the loop of `pruebaMuse`), the header has at least 5 bytes, and no number of
  portions leaves a rest of a page that would be a chunk of its own (`SinRestos`), which is needed:
  section 4 has the instance. With pages of at most 6 bytes every size satisfies it.
* `HipotesisCaida => (Spec => []InvCaida)` (`InvCaidaTheorem`): moreover page 0 lies within the first
  header, so that no copy or get asks for it: the search of page 0 in the swap returns no value.
* `InvBytes`, on contents, with the hypotheses of the third, for the refinement.

The page of 4 bytes of `configs/muse.cfg` and the header of `MUSE.c`, which are those of
`muse_memoria`, satisfy all of them, with clients like `pruebaMuse`. The configuration and clients of
the repository do not always: `archivo_de_swap_supermasivo.c` mixes sizes larger than a page, outside
of the first hypotheses, and the page of 16 bytes of `configs/SUSE/suseServer-stress.cfg` is outside of
the third, where the conclusion is false (`MusePaginaCero.cfg`). `NadaAssumption` says that NULL is no page, no content and
nothing that a get hands over.

`InvTablas` has the types and `Semaforo` (who holds `g_mutexPaginas` is at work, and nobody is once a
program closes); `Coherente`, with a conjunct for each way from one table to another: the entry of a
frame is a page that is in it (`EntradasBien`), a page that is in is the one of its frame
(`PresentesBien`), bits, contents, the pages that are out and their slots, one each
(`SlotsBien`, `AusentesBien`, `SlotsUnicos`); `Vigentes`, what is left of this while
`destruirPagina` goes over a program; and what the point of each thread says of its locals
(`DePrograma`, `EnCurso`). `Coherente` has a parameter, the page that `TraerPaginaDeSwap` has marked
as present and not brought yet: between its two halves the clock may send out any page but that
one. The clock is proved by what it returns (`ClockModificado`, a minimum over the frames, from
`LemasComunes`), and each function on the memory by what it does to the entries
(`TomarFrameBien`, `AlAgregar`, `AlTraer`, ...), so that a handler is a chain of these.

`InvPorciones` says that the heap of a program is a row of equal chunks that are taken, then at most
one that is free, of a whole number of units and a rest of at most 5 bytes (`FormaDe`), and that all
of it with the rest fills the pages (`Cabe`), those an alloc under way still has to add included
(`Porvenir`). It is what makes the addresses of `allocarEnHeapLibre` and `allocarHeapNuevo` those of
the next unit. `InvCaida` adds the full type of the locals and that a page asked for is not 0.

From them follow `TablasConsistentesTheorem` and `FramesDevueltosTheorem` (first tier),
`PorcionesAccesiblesTheorem` and `PorcionesDisjuntasTheorem` (second), `CaidaSoloPorSwapTheorem` and
`TypeOKMuseTheorem` (third).

`ImplementaMemoriaTheorem` is the refinement, `HipotesisCaida => (Spec => ImplementaMemoria)`: what the
programs reserve, copy and get is what `MemoriaMuse` promises, whichever of their pages are out.
`InvBytes` says that a copy or a get is of a live portion and at one of its pages, or past the last
(`EnPorcion`); that what a get has read are the bytes, as they are now, of the pages behind it
(`Leidos`); that the pages behind a copy hold what it copies (`Copiados`); and that nobody has
anything reserved once a program closes. `Hasta` is the address such a loop has reached, and `Avance` what one turn adds to it.
Nothing that the clock does changes a byte: the memory before and after a step is compared page by
page, in a frame or in a slot (`MismosBytes`, with the page that a copy writes as the exception), so
that the other programs see nothing (`LosOtros`) and each page fault changes only what its copy
writes (`BytesDelPageFault`). The abstract steps are the answer of an alloc (`VeRespuestaAlloc`, which needs
`PorcionesDisjuntas` of the next state), a free (`VeFree`), a copy that takes the semaphore
(`VeAcceder`), the last page of a get (`VePageFault`), the answer that hands it over (`VeRespuesta`)
and a client that goes (`VeDesconectar`); the rest are stutters, also the close, when nobody has
anything reserved (`VeCerrar`). A server that has met slot -1 takes no step more.

TLC checked the four invariants over the states of `muse_memoria` first.

Only model-checked: one refinement, `ImplementaArbol` (the files of a tree, whose recursive paths
need an induction for each step); and liveness (fairness and ENABLED are outside the prover's
reach).

## 7. Not modelled, and why

* What the metrics thread counts and logs of the threads of a process; its walk over the lists
  of threads happens inside single calls of the commons library, whose inner races are out of
  reach.
* The order of the ready list: see section 2.
* biblioNOC: serialisation, packets received in part, a failing `accept` or `pthread_create`, and
  `iniciarServidor`'s older relatives with `select`, which no server calls. A client that loses
  its connection: it would use a NULL packet.
* Stacks, contexts and the 5000 TCBs of hilolay; a thread that returns from `main` without
  `hilolay_return`.
* SAC: serialisation; `msync`; a crash of the server within a handler, after which nothing in the
  code repairs the disk; a driver that dies in the middle of a call, whose missing packet
  `SAC-Server.c:52` destroys without a test; reads past the end of a file, whose unsigned
  difference of sizes only the kernel keeps from happening; names longer than 71 bytes.
* MUSE, mapped files: a program with a heap and a mapping or with two mappings, so that no base
  of a segment but 0 occurs; an alloc after a map; a close with a mapping, and an unmap that is
  repeated, which free the pages twice; the eviction of mapped pages; a page that was never
  touched and is destroyed, which erases the slot of its number; the numbers of segments, which
  are drawn without a lock.
* MUSE, otherwise: serialisation; a client that connects again on the descriptor of one that went
  without closing, and finds its segments (`Descriptores` has the same reuse for SUSE); what two
  unlocked calls do to one commons list or bitmap.

## 8. Plan

1. *Done:* `Conexion`, `Suse`, `Hilolay`, `SuseSistema`, `SuseConcurrente`, and the proofs
   `SuseProofs`, `SuseConcurrenteProofs`, `SuseLugaresProofs`; `Descriptores`, `DescriptoresProofs`, `LemasComunes`;
   `Sac`, `SacVista`,
   `SistemaArchivos`; `Muse`, `MuseVista`, `MemoriaMuse`; `MuseMapas`, `MapasVista`,
   `ImagenesCompartidas`, `MapasArchivo`, `MapasProofs`; `DescriptoresVista`.
2. *Done:* SAC: theorems of the specification with one thread, `SacProofs`; MUSE: theorems of the
   heaps, `MuseProofs`.
3. *Done:* MUSE: mappings implement `ImagenesCompartidas` and heaps implement `MemoriaMuse`, proved. To do:
   heaps and mappings in one program; larger chunks, which meet `cambiarFramesPorHeap`.
4. SUSE: an abstract scheduler (a thread is created,
   eligible, running, waiting or ended) that `SuseSistema` refines.
