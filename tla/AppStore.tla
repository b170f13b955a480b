-------------------------------- MODULE AppStore --------------------------------
(***************************************************************************)
(* Web apps kept in flash (src/src/local_apps.rs), and the HTTP requests   *)
(* that maintain and serve them (src/src/http.rs).                         *)
(*                                                                         *)
(* The page of the bridge uploads a file block by block, each in a PUT of  *)
(* its own that begins once the one before has been answered 204.  A       *)
(* request that writes asks once whether maintenance is allowed, that is,  *)
(* whether no device is on the USB host port, and then waits for the body  *)
(* (a PUT) or goes on while the other core goes on, too.  Nothing keeps    *)
(* two clients from writing to one file.                                   *)
(*                                                                         *)
(* The blocks of a file are known by their upload and their place in it.   *)
(* LittleFS is modelled by what it does: a failed write leaves the file as *)
(* it was, a write beyond the end fills the hole with zeros.               *)
(***************************************************************************)
EXTENDS Integers, Sequences, FiniteSets

CONSTANTS
  Browsers,      \* the HTTP clients
  AppNames,      \* the names app_path accepts
  CHUNK,         \* blocks that serve_app_file reads at a time: 2
  MaxLength,     \* bound on the blocks of a file
  MaxUploads,    \* bound on the uploads of a client
  MaxAttaches    \* bound on the devices that are attached

ASSUME AppAssumption ==
  /\ {CHUNK, MaxLength, MaxUploads, MaxAttaches} \subseteq Nat \ {0}
  /\ IsFiniteSet(Browsers)

VARIABLES
  formatted,     \* whether the partition holds a file system
  files,         \* the content of each file, or Absent
  attached,      \* whether a device is on the port
  httpRequest,   \* the request of each client that the bridge is serving
  upload,        \* the upload each client is at, or has been at last
  attaches,      \* number of devices so far
  admitted,      \* writers admitted that had not written when it was attached
  late           \* writes since it was attached

appVars == <<formatted, files, attached, httpRequest, upload, attaches, admitted, late>>

Block(c, u, p) == [by |-> c, upload |-> u, place |-> p]
Zeros == Block("zeros", 0, 0)
Absent == <<Block("absent", 0, 0)>>
BlocksOf(c, u) == [p \in 1..upload[c].length |-> Block(c, u, p)]

\* At most n blocks from offset on.
Part(blocks, offset, n) ==
  SubSeq(blocks, offset + 1, IF offset + n < Len(blocks) THEN offset + n ELSE Len(blocks))

HttpRequest(op, name, offset, total) ==
  [op |-> op, name |-> name, offset |-> offset, total |-> total]
NoRequest == HttpRequest("none", "none", 0, 0)
Upload(count, name, length, pc) ==
  [count |-> count, name |-> name, length |-> length, next |-> 0, pc |-> pc,
   disturbed |-> FALSE]
NoUpload == Upload(0, "none", 0, "none")

AppInit ==
  /\ formatted \in BOOLEAN
  /\ files = [n \in AppNames |-> Absent]
  /\ attached = FALSE
  /\ httpRequest = [c \in Browsers |-> NoRequest]
  /\ upload = [c \in Browsers |-> NoUpload]
  /\ attaches = 0 /\ admitted = 0 /\ late = 0

apps_write_allowed == ~attached

AfterFailure(c) == Upload(upload[c].count, "none", 0, "failed")

Serve(c, request) == httpRequest' = [httpRequest EXCEPT ![c] = request]

Idle(c) == httpRequest[c] = NoRequest

-----------------------------------------------------------------------------
(* The clients.                                                            *)

\* The uploads of the clients cs to the files in names, if they go on or are
\* over, are not alone any more.
Disturb(cs, names) ==
  [b \in Browsers |->
     IF b \in cs /\ upload[b].name \in names
     THEN [upload[b] EXCEPT !.disturbed = TRUE] ELSE upload[b]]

BeginUpload(c) ==
  /\ Idle(c) /\ upload[c].pc \notin {"uploading"} /\ upload[c].count < MaxUploads
  /\ \E name \in AppNames, length \in 0..MaxLength :
       upload' = [upload EXCEPT ![c] =
                    Upload(upload[c].count + 1, name, length, "uploading")]
  /\ UNCHANGED <<formatted, files, attached, httpRequest, attaches, admitted, late>>

\* Mutant: only the first block of an upload is checked.
PutBlockUnchecked(c) ==
  /\ Idle(c) /\ upload[c].pc = "uploading"
  /\ IF apps_write_allowed \/ upload[c].next > 0
     THEN /\ Serve(c, HttpRequest("put", upload[c].name, upload[c].next, 0))
          /\ UNCHANGED upload
     ELSE /\ upload' = [upload EXCEPT ![c] = AfterFailure(c)]
          /\ UNCHANGED httpRequest
  /\ UNCHANGED <<formatted, files, attached, attaches, admitted, late>>

\* The PUT of the next block, up to the wait for its body; refused with 409
\* when a device is attached, and the page gives the upload up.
PutBlock(c) ==
  /\ Idle(c) /\ upload[c].pc = "uploading"
  /\ IF apps_write_allowed
     THEN /\ Serve(c, HttpRequest("put", upload[c].name, upload[c].next, 0))
          /\ UNCHANGED upload
     ELSE /\ upload' = [upload EXCEPT ![c] = AfterFailure(c)]
          /\ UNCHANGED httpRequest
  /\ UNCHANGED <<formatted, files, attached, attaches, admitted, late>>

\* DELETE and POST format: the check, which is all when a device is attached.
RequestMaintenance(c) ==
  /\ Idle(c) /\ upload[c].pc # "uploading" /\ apps_write_allowed
  /\ \/ \E name \in AppNames : Serve(c, HttpRequest("delete", name, 0, 0))
     \/ Serve(c, HttpRequest("format", "none", 0, 0))
  /\ UNCHANGED <<formatted, files, attached, upload, attaches, admitted, late>>

-----------------------------------------------------------------------------
(* The bridge.                                                             *)

\* Mutant: the file is opened without truncate.
Untruncated(content, offset) == IF content = Absent THEN <<>> ELSE content

\* The content of a file once a block is written at offset: cut off there for
\* the first block, kept and filled up otherwise.
Truncated(content, offset) == IF offset = 0 \/ content = Absent THEN <<>> ELSE content

Written(content, offset, data) ==
  LET old == Truncated(content, offset)
      at(p) == IF p > offset /\ p <= offset + Len(data) THEN data[p - offset]
               ELSE IF p <= Len(old) THEN old[p] ELSE Zeros
      length == IF Len(old) > offset + Len(data) THEN Len(old)
                ELSE IF data = <<>> THEN Len(old) ELSE offset + Len(data)
  IN  [p \in 1..length |-> at(p)]

\* Counts a write of the flash while a device is attached.
CountLate == late' = IF attached THEN late + 1 ELSE late

\* The page goes on to the next block, or has sent the last one.
Advanced(u) ==
  IF u.next + 1 >= u.length THEN [u EXCEPT !.pc = "installed"]
  ELSE [u EXCEPT !.next = @ + 1]

\* The body has come: write_chunk and its answer, 204 or 500, 507.
WriteBlock(c) ==
  /\ httpRequest[c].op = "put"
  /\ LET u == upload[c]
         data == Part(BlocksOf(c, u.count), u.next, 1)
     IN  \/ /\ formatted
            /\ files' = [files EXCEPT ![u.name] = Written(@, httpRequest[c].offset, data)]
            /\ upload' = [Disturb(Browsers \ {c}, {u.name}) EXCEPT ![c] = Advanced(u)]
         \/ /\ files' = [files EXCEPT ![u.name] =
                           IF formatted /\ @ = Absent THEN <<>> ELSE @]
            /\ upload' = [Disturb(Browsers \ {c}, {u.name}) EXCEPT ![c] = AfterFailure(c)]
         \/ /\ ~formatted   \* it cannot be mounted
            /\ UNCHANGED files
            /\ upload' = [upload EXCEPT ![c] = AfterFailure(c)]
  /\ Serve(c, NoRequest)
  /\ CountLate
  /\ UNCHANGED <<formatted, attached, attaches, admitted>>

RemoveFile(c) ==
  /\ httpRequest[c].op = "delete"
  /\ \/ /\ formatted /\ files[httpRequest[c].name] # Absent
        /\ files' = [files EXCEPT ![httpRequest[c].name] = Absent]
        /\ upload' = Disturb(Browsers, {httpRequest[c].name})
     \/ UNCHANGED <<files, upload>>   \* not found, or the write has failed
  /\ Serve(c, NoRequest)
  /\ CountLate
  /\ UNCHANGED <<formatted, attached, attaches, admitted>>

\* format() erases, then mounts and creates the directory; it may fail in
\* between, with the file system gone or empty.
Format(c) ==
  /\ httpRequest[c].op = "format"
  /\ \/ formatted' \in BOOLEAN /\ files' = [n \in AppNames |-> Absent]
     \/ UNCHANGED <<formatted, files>>
  /\ upload' = Disturb(Browsers, AppNames)
  /\ Serve(c, NoRequest)
  /\ CountLate
  /\ UNCHANGED <<attached, attaches, admitted>>

\* serve_app_file: the first chunk and the length, then chunk by chunk until as
\* much has been sent as the file had at first.
BeginServing(c) ==
  /\ Idle(c) /\ upload[c].pc # "uploading"
  /\ \E name \in AppNames :
       /\ formatted /\ files[name] # Absent
       /\ LET total == Len(files[name])
              first == Part(files[name], 0, CHUNK)
          IN  Serve(c, HttpRequest("get", name, Len(first), total))
  /\ UNCHANGED <<formatted, files, attached, upload, attaches, admitted, late>>

ServeChunk(c) ==
  /\ httpRequest[c].op = "get"
  /\ LET r == httpRequest[c]
         gone == ~formatted \/ files[r.name] = Absent
         chunk == IF gone THEN <<>> ELSE Part(files[r.name], r.offset, CHUNK)
     IN  Serve(c, IF r.offset >= r.total \/ chunk = <<>> THEN NoRequest
                  ELSE [r EXCEPT !.offset = @ + Len(chunk)])
  /\ UNCHANGED <<formatted, files, attached, upload, attaches, admitted, late>>

\* The connection breaks, or the 10 s of its time-out are over, before the body
\* has come, while a file is served, or before the answer to a write is back.
BreakConnection(c) ==
  /\ \/ /\ httpRequest[c].op \in {"put", "get"}
        /\ Serve(c, NoRequest)
     \/ Idle(c) /\ UNCHANGED httpRequest
  /\ IF httpRequest[c].op = "get"
     THEN UNCHANGED upload
     ELSE upload[c].pc = "uploading" /\ upload' = [upload EXCEPT ![c] = AfterFailure(c)]
  /\ UNCHANGED <<formatted, files, attached, attaches, admitted, late>>

-----------------------------------------------------------------------------
(* The other core.                                                         *)

Writers == {c \in Browsers : httpRequest[c].op \in {"put", "delete", "format"}}

Attach ==
  /\ ~attached /\ attaches < MaxAttaches
  /\ attached' = TRUE
  /\ attaches' = attaches + 1
  /\ late' = 0
  /\ admitted' = Cardinality(Writers)
  /\ UNCHANGED <<formatted, files, httpRequest, upload>>

Detach ==
  /\ attached
  /\ attached' = FALSE
  /\ UNCHANGED <<formatted, files, httpRequest, upload, attaches, admitted, late>>

-----------------------------------------------------------------------------
AppClientNext ==
  \E c \in Browsers :
    \/ BeginUpload(c) \/ PutBlock(c) \/ RequestMaintenance(c)
    \/ WriteBlock(c) \/ RemoveFile(c) \/ Format(c)
    \/ BeginServing(c) \/ ServeChunk(c) \/ BreakConnection(c)

AppNext == AppClientNext \/ Attach \/ Detach

AppSpec == AppInit /\ [][AppNext]_appVars

-----------------------------------------------------------------------------
UploadBlocks == [by : Browsers, upload : 1..MaxUploads, place : 1..MaxLength] \cup {Zeros}

AppTypeOK ==
  /\ formatted \in BOOLEAN /\ attached \in BOOLEAN
  /\ \A n \in AppNames :
       files[n] = Absent \/ /\ Len(files[n]) <= MaxLength
                            /\ \A p \in DOMAIN files[n] : files[n][p] \in UploadBlocks
  /\ \A c \in Browsers :
       /\ httpRequest[c].op \in {"none", "put", "delete", "format", "get"}
       /\ upload[c].pc \in {"none", "uploading", "installed", "failed"}
       /\ upload[c].next <= upload[c].length
  /\ attaches \in 0..MaxAttaches
  /\ {admitted, late} \subseteq 0..Cardinality(Browsers)

\* An upload the page reports as installed (apps.html 54) is in flash as it was
\* sent, whatever the file held before, unless another client changed the file
\* after the upload began.
UploadIsWhole ==
  \A c \in Browsers :
    upload[c].pc = "installed" /\ ~upload[c].disturbed
      => files[upload[c].name] = BlocksOf(c, upload[c].count)

\* "Flash maintenance is deliberately locked while a PIO USB-host device is
\* active" (README 1012): the flash is written while a device is attached only
\* by the requests that had been admitted before, each of which writes once.
LateWritesBounded == late <= admitted
================================================================================
