--------------------------- MODULE AppStoreProofs ----------------------------
(***************************************************************************)
(* Proofs about the app store.                                             *)
(*                                                                         *)
(* UploadsAreWhole: the invariant says of each upload that the file holds its *)
(* first blocks, as many as have been taken, unless the file was changed by *)
(* somebody else; what one client does keeps what is said of the others.   *)
(* LateWrites: the writes made while a device is attached and those still to *)
(* come are no more than the requests that had been admitted.              *)
(***************************************************************************)
EXTENDS AppStore, FiniteSetTheorems, SequenceTheorems, TLAPS

-----------------------------------------------------------------------------
(* Uploads, requests and their blocks.                                     *)

\* Uploads, by their fields.
Uploads ==
  [count : 0..MaxUploads, name : AppNames \cup {"none"}, length : 0..MaxLength,
   next : 0..MaxLength, pc : {"none", "uploading", "installed", "failed"},
   disturbed : BOOLEAN]

\* Requests, by their fields.
HttpRequests ==
  [op : {"none", "put", "delete", "format", "get"}, name : AppNames \cup {"none"},
   offset : Nat, total : Nat]

\* The bounds are numbers.
LEMMA AppLimits ==
  /\ CHUNK \in Nat /\ MaxLength \in Nat /\ MaxUploads \in Nat /\ MaxAttaches \in Nat
  /\ 0 \in 0..MaxLength /\ 0 \in 0..MaxUploads
BY AppAssumption

\* What an upload consists of.
LEMMA UploadFields ==
  ASSUME NEW u \in Uploads
  PROVE  /\ u.count \in 0..MaxUploads /\ u.name \in AppNames \cup {"none"}
         /\ u.length \in 0..MaxLength /\ u.next \in 0..MaxLength
         /\ u.pc \in {"none", "uploading", "installed", "failed"}
         /\ u.disturbed \in BOOLEAN
BY DEF Uploads

\* The upload that is not alone any more is the same otherwise.
LEMMA DisturbedUpload ==
  ASSUME NEW u \in Uploads
  PROVE  LET v == [u EXCEPT !.disturbed = TRUE]
         IN  /\ v \in Uploads
             /\ v.count = u.count /\ v.name = u.name /\ v.length = u.length
             /\ v.next = u.next /\ v.pc = u.pc /\ v.disturbed
BY DEF Uploads

\* The upload a page begins, or could not begin.
LEMMA NewUpload ==
  ASSUME NEW k \in 0..MaxUploads, NEW name \in AppNames \cup {"none"},
         NEW length \in 0..MaxLength, NEW pc \in {"none", "uploading", "installed", "failed"}
  PROVE  LET v == Upload(k, name, length, pc)
         IN  /\ v \in Uploads
             /\ v.count = k /\ v.name = name /\ v.length = length
             /\ v.next = 0 /\ v.pc = pc
BY AppLimits DEF Uploads, Upload

\* The upload whose block has been taken: it goes on, or it is installed.
LEMMA AdvancedUpload ==
  ASSUME NEW u \in Uploads, u.next < u.length \/ u.next = 0
  PROVE  LET v == Advanced(u)
         IN  /\ v \in Uploads
             /\ v.count = u.count /\ v.name = u.name /\ v.length = u.length
             /\ v.disturbed = u.disturbed
             /\ u.next + 1 >= u.length => v.next = u.next /\ v.pc = "installed"
             /\ u.next + 1 < u.length => v.next = u.next + 1 /\ v.pc = u.pc
<1> USE AppLimits
<1>1. CASE u.next + 1 >= u.length
  <2>1. Advanced(u) = [u EXCEPT !.pc = "installed"]
    BY <1>1 DEF Advanced
  <2> QED
    BY <1>1, <2>1 DEF Uploads
<1>2. CASE ~(u.next + 1 >= u.length)
  <2>1. Advanced(u) = [u EXCEPT !.next = u.next + 1]
    BY <1>2 DEF Advanced
  <2>2. u.next + 1 \in 0..MaxLength
    BY <1>2 DEF Uploads
  <2> QED
    BY <1>2, <2>1, <2>2 DEF Uploads
<1> QED
  BY <1>1, <1>2

\* The request a client sends.
LEMMA NewRequest == 
  ASSUME NEW op \in {"none", "put", "delete", "format", "get"},
         NEW name \in AppNames \cup {"none"}, NEW offset \in Nat, NEW total \in Nat
  PROVE  LET r == HttpRequest(op, name, offset, total)
         IN  /\ r \in HttpRequests
             /\ r.op = op /\ r.name = name /\ r.offset = offset /\ r.total = total
BY DEF HttpRequests, HttpRequest

\* The first n blocks of upload k of client c.
Blocks(c, k, n) == [p \in 1..n |-> Block(c, k, p)]

\* The blocks are a sequence, and no file that is absent.
LEMMA BlocksSeq ==
  ASSUME NEW c, NEW k, NEW n \in Nat
  PROVE  /\ Len(Blocks(c, k, n)) = n
         /\ \A p \in 1..n : Blocks(c, k, n)[p] = Block(c, k, p)
         /\ n = 0 <=> Blocks(c, k, n) = <<>>
         /\ Blocks(c, k, n) # Absent
<1> DEFINE S == {Block(c, k, p) : p \in 1..n}
           b == Blocks(c, k, n)
<1>1. b \in [1..n -> S] /\ \A p \in 1..n : b[p] = Block(c, k, p)
  BY DEF Blocks
<1>2. b \in Seq(S) /\ Len(b) = n
  BY <1>1
<1>3. n = 0 <=> b = <<>>
  BY <1>2
<1>4. b # Absent
  <2> SUFFICES ASSUME b = Absent PROVE FALSE
    OBVIOUS
  <2>1. Len(b) = 1 /\ b[1] = Block("absent", 0, 0)
    BY DEF Absent
  <2>2. Block(c, k, 1) = Block("absent", 0, 0)
    BY <1>1, <1>2, <2>1
  <2> QED
    BY <2>2 DEF Block
<1> QED
  BY <1>1, <1>2, <1>3, <1>4

\* One element of a sequence, as a part of it.
LEMMA PartOfOne ==
  ASSUME NEW S, NEW s, NEW m \in Int, s[m] \in S
  PROVE  LET d == SubSeq(s, m, m) IN d \in Seq(S) /\ Len(d) = 1 /\ d[1] = s[m]
<1> DEFINE d == SubSeq(s, m, m)
<1>1. \A i \in m .. m : s[i] \in S
  OBVIOUS
<1>2. /\ d \in Seq(S)
      /\ Len(d) = IF m <= m THEN m - m + 1 ELSE 0
      /\ \A i \in 1 .. m - m + 1 : d[i] = s[m + i - 1]
  BY <1>1, SubSeqProperties
<1> HIDE DEF d
<1>3. Len(d) = 1 
  BY <1>2
<1>4. d[1] = s[m + 1 - 1]
  BY <1>2
<1> QED
  BY <1>2, <1>3, <1>4 DEF d

\* Writing the next block of an upload where the first ones are: one more.
LEMMA WrittenNext ==
  ASSUME NEW c, NEW k, NEW length \in Nat, NEW next \in Nat,
         next = 0 \/ next < length, NEW content,
         next > 0 => content = Blocks(c, k, next)
  PROVE  Written(content, next, Part(Blocks(c, k, length), next, 1))
           = Blocks(c, k, IF next + 1 >= length THEN length ELSE next + 1)
<1> DEFINE all == Blocks(c, k, length)
           data == Part(all, next, 1)
           old == Truncated(content, next)
<1>1. /\ Len(all) = length /\ \A p \in 1..length : all[p] = Block(c, k, p)
  BY BlocksSeq
<1>2. Len(old) = next /\ \A p \in 1..next : old[p] = Block(c, k, p)
  <2>1. CASE next = 0
    BY <2>1 DEF Truncated
  <2>2. CASE next # 0
    <3>1. old = Blocks(c, k, next)
      BY <2>2, BlocksSeq DEF Truncated
    <3> QED
      BY <3>1, BlocksSeq
  <2> QED
    BY <2>1, <2>2
<1>3. CASE next < length
  <2>1. data = SubSeq(all, next + 1, next + 1)
    BY <1>1, <1>3 DEF Part
  <2>2. Len(data) = 1 /\ data[1] = Block(c, k, next + 1) /\ data # <<>>
    <3> HIDE DEF all
    <3> DEFINE S == {Block(c, k, p) : p \in 1..length}
    <3>1. next + 1 \in Int /\ all[next + 1] \in S /\ all[next + 1] = Block(c, k, next + 1)
      BY <1>1, <1>3
    <3>2. LET d == SubSeq(all, next + 1, next + 1)
          IN  d \in Seq(S) /\ Len(d) = 1 /\ d[1] = all[next + 1]
      <4> HIDE DEF S, all
      <4> QED
        BY <3>1, PartOfOne
    <3> HIDE DEF S, all, data
    <3>3. data \in Seq(S) /\ Len(data) = 1 /\ data[1] = all[next + 1]
      BY <2>1, <3>2
    <3>4. data # <<>>
      BY <3>3
    <3> QED
      BY <3>1, <3>3, <3>4
  <2> HIDE DEF all, data, old
  <2>3. Written(content, next, data) =
          [p \in 1..next + 1 |-> IF p > next THEN data[1] ELSE old[p]]
    BY <1>2, <1>3, <2>2 DEF Written, old
  <2>4. Written(content, next, data) = Blocks(c, k, next + 1)
    BY <1>2, <1>3, <2>2, <2>3 DEF Blocks
  <2>5. next + 1 = IF next + 1 >= length THEN length ELSE next + 1
    BY <1>3
  <2> QED
    BY <2>4, <2>5 DEF all, data
<1>4. CASE next >= length
  <2>1. next = 0 /\ length = 0
    BY <1>4
  <2>2. data = <<>>
    BY <1>1, <2>1 DEF Part
  <2> HIDE DEF all, data, old
  <2>3. Written(content, next, data) = Blocks(c, k, 0)
    BY <1>2, <2>1, <2>2 DEF Written, Blocks, old
  <2> QED
    BY <2>1, <2>3 DEF all, data
<1> QED
  BY <1>3, <1>4

-----------------------------------------------------------------------------
(* The invariant: what is said of a client and of the files.               *)

\* What is said of the upload and the request of client c, and of the files.
UploadAt(c, u, r, fs) ==
  /\ u \in Uploads /\ r \in HttpRequests
  /\ u.pc \in {"uploading", "installed"} => u.name \in AppNames
  /\ u.next = 0 \/ u.next < u.length
  /\ u.pc = "uploading" => u.count >= 1
  /\ r.op = "put" => u.pc = "uploading" /\ r.offset = u.next
  /\ r.op \in {"delete", "get"} => r.name \in AppNames
  /\ ~u.disturbed =>
       /\ u.pc = "uploading" /\ u.next > 0 => fs[u.name] = Blocks(c, u.count, u.next)
       /\ u.pc = "installed" => fs[u.name] = Blocks(c, u.count, u.length)

\* What a file may hold.
Contents == {Absent} \cup {f \in Seq(UploadBlocks) : Len(f) <= MaxLength}

\* Every file of the store holds what a file may hold.
FilesOK(fs) == DOMAIN fs = AppNames /\ \A n \in AppNames : fs[n] \in Contents

\* The lock, the counters and the files are of their types.
Counters ==
  /\ formatted \in BOOLEAN /\ attached \in BOOLEAN
  /\ attaches \in 0..MaxAttaches /\ admitted \in Nat /\ late \in Nat
  /\ FilesOK(files)

\* Every browser has an upload and a request.
Shaped ==
  /\ DOMAIN httpRequest = Browsers /\ httpRequest = [c \in Browsers |-> httpRequest[c]]
  /\ DOMAIN upload = Browsers /\ upload = [c \in Browsers |-> upload[c]]

\* The inductive invariant of the store: what is said of each client, whatever the
\* others do.
AppInv == Counters /\ Shaped /\ \A c \in Browsers : UploadAt(c, upload[c], httpRequest[c], files)

\* Nothing is asked of an upload that failed.
LEMMA FailedUpload ==
  ASSUME NEW c, NEW k \in 0..MaxUploads, NEW r \in HttpRequests, r.op # "put",
         r.op \in {"delete", "get"} => r.name \in AppNames, NEW fs
  PROVE  UploadAt(c, Upload(k, "none", 0, "failed"), r, fs)
<1> DEFINE u == Upload(k, "none", 0, "failed")
<1>1. u \in Uploads /\ u.next = 0 /\ u.pc = "failed"
  BY NewUpload, AppLimits
<1> HIDE DEF u
<1>2. UploadAt(c, u, r, fs)
  BY <1>1 DEF UploadAt
<1> QED
  BY <1>2 DEF u

\* An upload that is disturbed may find any file.
LEMMA DisturbedAt ==
  ASSUME NEW c, NEW u, NEW r, NEW fs, NEW gs, UploadAt(c, u, r, fs)
  PROVE  UploadAt(c, [u EXCEPT !.disturbed = TRUE], r, gs)
<1> DEFINE v == [u EXCEPT !.disturbed = TRUE]
<1>1. u \in Uploads
  BY DEF UploadAt
<1>2. /\ v \in Uploads
      /\ v.count = u.count /\ v.name = u.name /\ v.length = u.length
      /\ v.next = u.next /\ v.pc = u.pc /\ v.disturbed
  BY <1>1, DisturbedUpload
<1> HIDE DEF v
<1>3. UploadAt(c, v, r, gs)
  BY <1>2 DEF UploadAt
<1> QED
  BY <1>3 DEF v

\* An upload whose file is not touched.
LEMMA ElsewhereAt ==
  ASSUME NEW c, NEW u, NEW r, NEW fs, NEW gs, UploadAt(c, u, r, fs),
         u.name \in AppNames => gs[u.name] = fs[u.name]
  PROVE  UploadAt(c, u, r, gs)
BY DEF UploadAt

\* The end of a request disturbs no upload.
LEMMA RequestEnds ==
  ASSUME NEW c, NEW u, NEW r, NEW fs, UploadAt(c, u, r, fs)
  PROVE  UploadAt(c, u, NoRequest, fs)
<1>1. NoRequest \in HttpRequests /\ NoRequest.op = "none"
  BY NewRequest DEF NoRequest
<1> QED
  BY <1>1 DEF UploadAt

\* A block that is written where the last one ended continues the file.
LEMMA StoredAt ==
  ASSUME NEW c \in Browsers, NEW u, NEW r, NEW fs, UploadAt(c, u, r, fs), r.op = "put",
         NEW gs,
         gs[u.name] = Written(fs[u.name], r.offset,
                              Part(Blocks(c, u.count, u.length), u.next, 1)),
         NEW s \in HttpRequests, s.op = "none"
  PROVE  UploadAt(c, Advanced(u), s, gs)
<1> DEFINE v == Advanced(u)
           more == u.next + 1 < u.length
<1>1. /\ u \in Uploads /\ u.pc = "uploading" /\ r.offset = u.next /\ u.name \in AppNames
      /\ u.next = 0 \/ u.next < u.length
  BY DEF UploadAt
<1>2. u.length \in Nat /\ u.next \in Nat /\ u.disturbed \in BOOLEAN
  BY <1>1, UploadFields, AppLimits
<1>3. /\ v \in Uploads
      /\ v.count = u.count /\ v.name = u.name /\ v.length = u.length
      /\ v.disturbed = u.disturbed
      /\ ~more => v.next = u.next /\ v.pc = "installed"
      /\ more => v.next = u.next + 1 /\ v.pc = u.pc
  <2>1. u.next < u.length \/ u.next = 0
    BY <1>1
  <2> QED
    BY <1>1, <1>2, <2>1, AdvancedUpload
<1> HIDE DEF v
<1>4. ~u.disturbed =>
        gs[u.name] = Blocks(c, u.count, IF u.next + 1 >= u.length THEN u.length
                                        ELSE u.next + 1)
  <2> SUFFICES ASSUME ~u.disturbed
               PROVE  gs[u.name] = Blocks(c, u.count,
                                     IF u.next + 1 >= u.length THEN u.length ELSE u.next + 1)
    OBVIOUS
  <2> DEFINE content == fs[u.name]
             k == u.count
             next == u.next
             length == u.length
  <2>1. next > 0 => content = Blocks(c, k, next)
    BY <1>1 DEF UploadAt
  <2>2. gs[u.name] = Written(content, next, Part(Blocks(c, k, length), next, 1))
    BY <1>1
  <2>3. length \in Nat /\ next \in Nat /\ (next = 0 \/ next < length)
    BY <1>1, <1>2
  <2> HIDE DEF content, k, next, length
  <2>4. Written(content, next, Part(Blocks(c, k, length), next, 1))
           = Blocks(c, k, IF next + 1 >= length THEN length ELSE next + 1)
    BY <2>1, <2>3, WrittenNext
  <2> QED
    BY <2>2, <2>4 DEF content, k, next, length
<1>5. CASE more
  <2>1. v.next < v.length /\ v.pc = "uploading" /\ v.next = u.next + 1
    BY <1>1, <1>2, <1>3, <1>5
  <2>2. ~v.disturbed => gs[v.name] = Blocks(c, v.count, v.next)
    BY <1>2, <1>3, <1>4, <1>5
  <2>3. UploadAt(c, v, s, gs)
    BY <1>1, <1>3, <2>1, <2>2 DEF UploadAt
  <2> QED
    BY <2>3 DEF v
<1>6. CASE ~more
  <2>1. v.pc = "installed" /\ (v.next = 0 \/ v.next < v.length)
    BY <1>1, <1>2, <1>3, <1>6
  <2>2. ~v.disturbed => gs[v.name] = Blocks(c, v.count, v.length)
    BY <1>2, <1>3, <1>4, <1>6
  <2>3. UploadAt(c, v, s, gs)
    BY <1>1, <1>3, <2>1, <2>2 DEF UploadAt
  <2> QED
    BY <2>3 DEF v
<1> QED
  BY <1>5, <1>6

-----------------------------------------------------------------------------
(* The steps that change no file.                                          *)

\* The invariant of the store holds at first.
LEMMA AppStart == AppInit => AppInv
<1> SUFFICES ASSUME AppInit PROVE AppInv
  OBVIOUS
<1>1. NoRequest \in HttpRequests /\ NoRequest.op = "none"
  BY NewRequest DEF NoRequest
<1>2. /\ NoUpload \in Uploads /\ NoUpload.next = 0 /\ NoUpload.pc = "none"
  BY NewUpload, AppLimits DEF NoUpload
<1>3. \A c \in Browsers : UploadAt(c, upload[c], httpRequest[c], files)
  BY <1>1, <1>2 DEF AppInit, UploadAt
<1>4. Counters
  <2>1. formatted \in BOOLEAN /\ attached \in BOOLEAN
    BY DEF AppInit
  <2>2. attaches = 0 /\ admitted = 0 /\ late = 0
    BY DEF AppInit
  <2>3. FilesOK(files)
    BY DEF AppInit, FilesOK, Contents
  <2> QED
    BY <2>1, <2>2, <2>3, AppLimits DEF Counters
<1>5. Shaped
  BY DEF AppInit, Shaped
<1> QED
  BY <1>3, <1>4, <1>5 DEF AppInv

\* A step in which client c alone goes on, and no file changes.
LEMMA OneClient ==
  ASSUME AppInv, NEW c \in Browsers, NEW u, NEW r,
         upload' = [upload EXCEPT ![c] = u], httpRequest' = [httpRequest EXCEPT ![c] = r],
         UploadAt(c, u, r, files), files' = files, Counters'
  PROVE  AppInv'
<1>1. \A b \in Browsers : UploadAt(b, upload'[b], httpRequest'[b], files')
  BY DEF AppInv, Shaped
<1>2. Shaped'
  BY DEF AppInv, Shaped
<1> QED
  BY <1>1, <1>2 DEF AppInv

\* What the invariant says of one client.
LEMMA ClientAt ==
  ASSUME AppInv, NEW c \in Browsers
  PROVE  /\ UploadAt(c, upload[c], httpRequest[c], files)
         /\ upload[c] \in Uploads /\ httpRequest[c] \in HttpRequests
         /\ upload = [upload EXCEPT ![c] = upload[c]]
         /\ httpRequest = [httpRequest EXCEPT ![c] = httpRequest[c]]
         /\ upload[c].count \in 0..MaxUploads
         /\ NoRequest \in HttpRequests /\ NoRequest.op = "none"
<1>1. UploadAt(c, upload[c], httpRequest[c], files)
  BY DEF AppInv
<1>2. upload[c] \in Uploads /\ httpRequest[c] \in HttpRequests
  BY <1>1 DEF UploadAt
<1>3. NoRequest \in HttpRequests /\ NoRequest.op = "none"
  BY NewRequest DEF NoRequest
<1> QED
  BY <1>1, <1>2, <1>3, UploadFields DEF AppInv, Shaped

\* An upload that begins has no block in the file yet.
LEMMA BeginUploadInv ==
  ASSUME AppInv, NEW c \in Browsers, BeginUpload(c) PROVE AppInv'
<1>1. PICK name \in AppNames, length \in 0..MaxLength :
        upload' = [upload EXCEPT ![c] = Upload(upload[c].count + 1, name, length, "uploading")]
  BY DEF BeginUpload
<1> DEFINE u == Upload(upload[c].count + 1, name, length, "uploading")
<1>2. upload[c].count + 1 \in 0..MaxUploads /\ upload[c].count + 1 >= 1
  BY ClientAt, AppLimits DEF BeginUpload
<1>3. /\ u \in Uploads /\ u.name = name /\ u.next = 0 /\ u.pc = "uploading"
      /\ u.count >= 1
  BY <1>2, NewUpload
<1> HIDE DEF u
<1>4. UploadAt(c, u, httpRequest[c], files)
  BY <1>3, ClientAt DEF UploadAt, BeginUpload, Idle
<1>5. Counters'
  BY DEF AppInv, Counters, BeginUpload
<1> QED
  BY <1>1, <1>4, <1>5, OneClient, ClientAt DEF BeginUpload, u

\* The upload of a client that has none that is served fails.
LEMMA RequestFails ==
  ASSUME AppInv, NEW c \in Browsers, NEW r \in HttpRequests, r.op # "put",
         r.op \in {"delete", "get"} => r.name \in AppNames, NEW fs
  PROVE  UploadAt(c, AfterFailure(c), r, fs)
BY ClientAt, FailedUpload DEF AfterFailure

\* A request with a block is one for the block that is due.
LEMMA PutBlockInv ==
  ASSUME AppInv, NEW c \in Browsers, PutBlock(c) PROVE AppInv'
<1>1. Counters'
  BY DEF AppInv, Counters, PutBlock
<1>2. CASE apps_write_allowed
  <2> DEFINE r == HttpRequest("put", upload[c].name, upload[c].next, 0)
  <2>1. r \in HttpRequests /\ r.op = "put" /\ r.offset = upload[c].next
    <3>1. upload[c].name \in AppNames \cup {"none"} /\ upload[c].next \in Nat /\ 0 \in Nat
      BY ClientAt, UploadFields, AppLimits
    <3> QED
      BY <3>1, NewRequest
  <2>2. httpRequest' = [httpRequest EXCEPT ![c] = r] /\ upload' = upload /\ files' = files
    BY <1>2 DEF PutBlock, Serve
  <2> HIDE DEF r
  <2>3. UploadAt(c, upload[c], r, files)
    BY <2>1, ClientAt DEF UploadAt, PutBlock
  <2> QED
    BY <1>1, <2>2, <2>3, OneClient, ClientAt
<1>3. CASE ~apps_write_allowed
  <2>1. UploadAt(c, AfterFailure(c), httpRequest[c], files)
    BY RequestFails, ClientAt DEF PutBlock, Idle
  <2>2. /\ httpRequest' = httpRequest /\ files' = files
        /\ upload' = [upload EXCEPT ![c] = AfterFailure(c)]
    BY <1>3 DEF PutBlock
  <2> QED
    BY <1>1, <2>1, <2>2, OneClient, ClientAt
<1> QED
  BY <1>2, <1>3

\* A request that writes nothing is accepted, or refused.
LEMMA ServeInv ==
  ASSUME AppInv, NEW c \in Browsers, NEW r \in HttpRequests, r.op # "put",
         r.op \in {"delete", "get"} => r.name \in AppNames,
         Serve(c, r), upload' = upload, files' = files, Counters'
  PROVE  AppInv'
<1>1. UploadAt(c, upload[c], r, files)
  BY ClientAt DEF UploadAt
<1> QED
  BY <1>1, OneClient, ClientAt DEF Serve

\* A request to remove a file or to format the store.
LEMMA RequestMaintenanceInv ==
  ASSUME AppInv, NEW c \in Browsers, RequestMaintenance(c) PROVE AppInv'
<1>1. upload' = upload /\ files' = files /\ Counters'
  BY DEF AppInv, Counters, RequestMaintenance
<1>2. ASSUME NEW name \in AppNames, Serve(c, HttpRequest("delete", name, 0, 0))
      PROVE  AppInv'
  <2> DEFINE r == HttpRequest("delete", name, 0, 0)
  <2>1. r \in HttpRequests /\ r.op = "delete" /\ r.name = name
    BY NewRequest
  <2>2. Serve(c, r)
    BY <1>2
  <2> HIDE DEF r
  <2> QED
    BY <1>1, <2>1, <2>2, ServeInv
<1>3. ASSUME Serve(c, HttpRequest("format", "none", 0, 0))
      PROVE  AppInv'
  <2> DEFINE r == HttpRequest("format", "none", 0, 0)
  <2>1. r \in HttpRequests /\ r.op = "format"
    BY NewRequest
  <2>2. Serve(c, r)
    BY <1>3
  <2> HIDE DEF r
  <2> QED
    BY <1>1, <2>1, <2>2, ServeInv
<1> QED
  BY <1>2, <1>3 DEF RequestMaintenance

\* A file that begins to be served.
LEMMA BeginServingInv ==
  ASSUME AppInv, NEW c \in Browsers, NEW first \in Nat, NEW total \in Nat, NEW name \in AppNames,
         Serve(c, HttpRequest("get", name, first, total)), upload' = upload, files' = files, Counters'
  PROVE  AppInv'
<1> DEFINE r == HttpRequest("get", name, first, total)
<1>1. r \in HttpRequests /\ r.op = "get" /\ r.name = name
  BY NewRequest
<1>2. Serve(c, r)
  OBVIOUS
<1> HIDE DEF r
<1> QED
  BY <1>1, <1>2, ServeInv

\* A connection that breaks fails the upload of its client.
LEMMA BreakConnectionInv ==
  ASSUME AppInv, NEW c \in Browsers, BreakConnection(c) PROVE AppInv'
<1>1. files' = files /\ Counters'
  BY DEF AppInv, Counters, BreakConnection
<1> DEFINE r == httpRequest'[c]
           u == upload'[c]
<1>2. \/ r = httpRequest[c] /\ r.op = "none"
      \/ r = NoRequest
  BY ClientAt DEF BreakConnection, Idle, Serve, AppInv, Shaped
<1>3. r \in HttpRequests /\ r.op = "none"
  BY <1>2, ClientAt
<1>4. httpRequest' = [httpRequest EXCEPT ![c] = r]
  BY DEF BreakConnection, Serve, AppInv, Shaped
<1>5. upload' = [upload EXCEPT ![c] = u] /\ (u = upload[c] \/ u = AfterFailure(c))
  BY DEF BreakConnection, AppInv, Shaped
<1> HIDE DEF u, r
<1>6. UploadAt(c, upload[c], r, files)
  BY <1>3, ClientAt DEF UploadAt
<1>7. UploadAt(c, AfterFailure(c), r, files)
  BY <1>3, RequestFails
<1> QED
  BY <1>1, <1>4, <1>5, <1>6, <1>7, OneClient

-----------------------------------------------------------------------------
(* The steps that write, and the others.                                   *)

\* A part of a sequence of blocks is one, and of at most n of them.
LEMMA PartContents ==
  ASSUME NEW S, NEW blocks \in Seq(S), NEW offset \in Nat, NEW n \in Nat
  PROVE  /\ Part(blocks, offset, n) \in Seq(S)
         /\ Len(Part(blocks, offset, n)) <= n
         /\ Len(Part(blocks, offset, n)) # 0 => offset < Len(blocks)
<1> DEFINE m == offset + 1
           l == IF offset + n < Len(blocks) THEN offset + n ELSE Len(blocks)
           d == SubSeq(blocks, m, l)
<1>1. m \in Int /\ l \in Int /\ 1 <= m /\ l <= Len(blocks) /\ Len(blocks) \in Nat
  OBVIOUS
<1>2. \A i \in m .. l : blocks[i] \in S
  <2> HIDE DEF m, l
  <2> QED
    BY <1>1
<1>3. d \in Seq(S) /\ Len(d) = IF m <= l THEN l - m + 1 ELSE 0
  <2> HIDE DEF m, l
  <2> QED
    BY <1>1, <1>2, SubSeqProperties
<1>4. d = Part(blocks, offset, n)
  BY DEF Part
<1> HIDE DEF d
<1> QED
  BY <1>1, <1>3, <1>4

\* The blocks of an upload are what a file may hold.
LEMMA BlocksContents ==
  ASSUME NEW c \in Browsers, NEW k \in 1..MaxUploads, NEW n \in 0..MaxLength
  PROVE  Blocks(c, k, n) \in Seq(UploadBlocks)
<1>1. \A p \in 1..n : Block(c, k, p) \in UploadBlocks
  BY AppLimits DEF UploadBlocks, Block
<1>2. n \in Nat
  BY AppLimits
<1> HIDE DEF UploadBlocks
<1> QED
  BY <1>1, <1>2 DEF Blocks

\* A file that is written holds what a file may hold.
LEMMA WrittenContents ==
  ASSUME NEW content \in Contents, NEW offset \in Nat, NEW data \in Seq(UploadBlocks),
         Len(data) <= 1, Len(data) # 0 => offset + 1 <= MaxLength
  PROVE  Written(content, offset, data) \in Contents
<1> DEFINE old == Truncated(content, offset)
           length == IF Len(old) > offset + Len(data) THEN Len(old)
                     ELSE IF data = <<>> THEN Len(old) ELSE offset + Len(data)
           at(p) == IF p > offset /\ p <= offset + Len(data) THEN data[p - offset]
                    ELSE IF p <= Len(old) THEN old[p] ELSE Zeros
<1>1. old \in Seq(UploadBlocks) /\ Len(old) <= MaxLength
  BY AppLimits DEF Truncated, Contents
<1>2. length \in Nat /\ length <= MaxLength
  <2>1. Len(data) \in Nat /\ Len(old) \in Nat /\ (Len(data) = 0 <=> data = <<>>)
    BY <1>1
  <2> HIDE DEF old
  <2> QED
    BY <1>1, <2>1, AppLimits
<1>3. \A p \in 1..length : at(p) \in UploadBlocks
  <2> HIDE DEF length, old
  <2> SUFFICES ASSUME NEW p \in 1..length PROVE at(p) \in UploadBlocks
    OBVIOUS
  <2>0. p \in Int /\ p >= 1 /\ Len(data) \in Nat /\ Len(old) \in Nat
    BY <1>1, <1>2
  <2>1. CASE p > offset /\ p <= offset + Len(data)
    <3>1. p - offset \in 1..Len(data)
      BY <2>0, <2>1
    <3>2. data[p - offset] \in UploadBlocks
      BY <3>1
    <3>3. at(p) = data[p - offset]
      BY <2>1
    <3> QED
      BY <3>2, <3>3
  <2>2. CASE ~(p > offset /\ p <= offset + Len(data)) /\ p <= Len(old)
    <3>1. at(p) = old[p] /\ p \in 1..Len(old)
      BY <2>0, <2>2
    <3> QED
      BY <1>1, <3>1
  <2>3. CASE ~(p > offset /\ p <= offset + Len(data)) /\ ~(p <= Len(old))
    <3>1. at(p) = Zeros
      BY <2>3
    <3> QED
      BY <3>1 DEF UploadBlocks
  <2> QED
    BY <2>1, <2>2, <2>3
<1>4. Written(content, offset, data) = [p \in 1..length |-> at(p)]
  BY DEF Written
<1> HIDE DEF old, length, at
<1> QED
  BY <1>2, <1>3, <1>4 DEF Contents

\* A client whose uploads to the files in names are disturbed, when no other
\* file changes.
LEMMA DisturbKeeps ==
  ASSUME AppInv, NEW cs, NEW names, NEW gs, \A n \in AppNames \ names : gs[n] = files[n],
         NEW b \in Browsers, b \in cs
  PROVE  UploadAt(b, Disturb(cs, names)[b], httpRequest[b], gs)
<1>1. UploadAt(b, upload[b], httpRequest[b], files)
  BY ClientAt
<1>2. CASE upload[b].name \in names
  <2>1. Disturb(cs, names)[b] = [upload[b] EXCEPT !.disturbed = TRUE]
    BY <1>2 DEF Disturb
  <2> QED
    BY <1>1, <2>1, DisturbedAt
<1>3. CASE upload[b].name \notin names
  <2>1. Disturb(cs, names)[b] = upload[b]
    BY <1>3 DEF Disturb
  <2> QED
    BY <1>1, <1>3, <2>1, ElsewhereAt
<1> QED
  BY <1>2, <1>3

\* The block is written, or the flash refuses it; uploads of others to the file
\* are disturbed.
LEMMA WriteBlockInv ==
  ASSUME AppInv, NEW c \in Browsers, WriteBlock(c) PROVE AppInv'
<1> DEFINE u == upload[c]
           r == httpRequest[c]
           data == Part(BlocksOf(c, u.count), u.next, 1)
           stored == [files EXCEPT ![u.name] = Written(@, r.offset, data)]
           others == Disturb(Browsers \ {c}, {u.name})
<1>1. /\ r.op = "put" /\ u.pc = "uploading" /\ r.offset = u.next /\ u.name \in AppNames
      /\ UploadAt(c, u, r, files) /\ u \in Uploads /\ u.count >= 1
      /\ u.next = 0 \/ u.next < u.length
  BY ClientAt DEF WriteBlock, UploadAt
<1>2. u.next \in Nat /\ u.length \in 0..MaxLength /\ u.count \in 1..MaxUploads
  BY <1>1, UploadFields, AppLimits
<1>3. /\ httpRequest' = [httpRequest EXCEPT ![c] = NoRequest]
      /\ formatted' = formatted /\ attached' = attached /\ attaches' = attaches
      /\ admitted' = admitted /\ late' \in Nat
  BY DEF WriteBlock, Serve, CountLate, AppInv, Counters
<1>4. BlocksOf(c, u.count) = Blocks(c, u.count, u.length)
  BY DEF BlocksOf, Blocks
<1>5. FilesOK(files)
  BY DEF AppInv, Counters
<1>6. DOMAIN httpRequest' = Browsers /\ httpRequest' = [b \in Browsers |-> httpRequest'[b]]
  BY <1>3 DEF AppInv, Shaped
<1>7. \A b \in Browsers \ {c} : httpRequest'[b] = httpRequest[b]
  BY <1>3 DEF AppInv, Shaped
<1>8. httpRequest'[c] = NoRequest
  BY <1>3 DEF AppInv, Shaped
<1>9. ASSUME NEW gs, NEW v, FilesOK(gs),
             \A n \in AppNames \ {u.name} : gs[n] = files[n],
             UploadAt(c, v, NoRequest, gs),
             files' = gs, upload' = [others EXCEPT ![c] = v]
      PROVE  AppInv'
  <2>1. \A b \in Browsers \ {c} : UploadAt(b, others[b], httpRequest[b], gs)
    BY <1>9, DisturbKeeps
  <2>2. DOMAIN others = Browsers
    BY DEF Disturb
  <2> HIDE DEF others
  <2>3. Shaped'
    BY <1>6, <1>9, <2>2 DEF Shaped
  <2>4. \A b \in Browsers : UploadAt(b, upload'[b], httpRequest'[b], gs)
    BY <1>7, <1>8, <1>9, <2>1, <2>2
  <2>5. Counters'
    BY <1>3, <1>9 DEF AppInv, Counters
  <2> QED
    BY <1>9, <2>3, <2>4, <2>5 DEF AppInv
<1>10. NoRequest \in HttpRequests /\ NoRequest.op = "none"
  BY ClientAt
<1>11. CASE files' = stored /\ upload' = [others EXCEPT ![c] = Advanced(u)]
  <2>1. stored[u.name] = Written(files[u.name], r.offset,
                                 Part(Blocks(c, u.count, u.length), u.next, 1))
    BY <1>1, <1>4, <1>5 DEF FilesOK
  <2>2. UploadAt(c, Advanced(u), NoRequest, stored)
    BY <1>1, <1>10, <2>1, StoredAt
  <2>3. data \in Seq(UploadBlocks) /\ Len(data) <= 1
        /\ (Len(data) # 0 => u.next + 1 <= MaxLength)
    <3> DEFINE all == Blocks(c, u.count, u.length)
    <3>1. all \in Seq(UploadBlocks) /\ Len(all) = u.length
      BY <1>2, BlocksContents, BlocksSeq, AppLimits
    <3>2. data = Part(all, u.next, 1)
      BY <1>4
    <3> HIDE DEF all, data
    <3> QED
      BY <1>2, <3>1, <3>2, PartContents, AppLimits
  <2>4. Written(files[u.name], r.offset, data) \in Contents
    <3> HIDE DEF data
    <3> QED
      BY <1>1, <1>2, <1>5, <2>3, WrittenContents DEF FilesOK
  <2>5. FilesOK(stored) /\ \A n \in AppNames \ {u.name} : stored[n] = files[n]
    <3> HIDE DEF data
    <3> QED
      BY <1>1, <1>5, <2>4 DEF FilesOK
  <2> HIDE DEF u, stored, others
  <2> QED
    BY <1>9, <1>11, <2>2, <2>5
<1>12. CASE /\ files' = [files EXCEPT ![u.name] =
                           IF formatted /\ @ = Absent THEN <<>> ELSE @]
            /\ upload' = [others EXCEPT ![c] = AfterFailure(c)]
  <2> DEFINE gs == [files EXCEPT ![u.name] = IF formatted /\ @ = Absent THEN <<>> ELSE @]
  <2>1. FilesOK(gs) /\ \A n \in AppNames \ {u.name} : gs[n] = files[n]
    <3>1. <<>> \in Contents
      BY AppLimits DEF Contents
    <3> QED
      BY <1>1, <1>5, <3>1 DEF FilesOK
  <2>2. UploadAt(c, AfterFailure(c), NoRequest, gs)
    BY <1>10, RequestFails
  <2> HIDE DEF u, gs, others
  <2> QED
    BY <1>9, <1>12, <2>1, <2>2 DEF gs
<1>13. CASE files' = files /\ upload' = [upload EXCEPT ![c] = AfterFailure(c)]
  <2>1. UploadAt(c, AfterFailure(c), NoRequest, files)
    BY <1>10, RequestFails
  <2>2. Counters'
    BY <1>3, <1>13 DEF AppInv, Counters
  <2> QED
    BY <1>3, <1>13, <2>1, <2>2, OneClient
<1> QED
  BY <1>11, <1>12, <1>13 DEF WriteBlock

\* A request that changes files disturbs every upload to them.
LEMMA DisturbAll ==
  ASSUME AppInv, NEW c \in Browsers, NEW names, NEW gs, FilesOK(gs),
         \A n \in AppNames \ names : gs[n] = files[n],
         Serve(c, NoRequest), upload' = Disturb(Browsers, names), files' = gs,
         formatted' \in BOOLEAN, late' \in Nat,
         attached' = attached, attaches' = attaches, admitted' = admitted
  PROVE  AppInv'
<1>1. \A b \in Browsers : UploadAt(b, upload'[b], httpRequest[b], gs)
  BY DisturbKeeps
<1>2. NoRequest \in HttpRequests /\ NoRequest.op = "none"
  BY ClientAt
<1>3. \A b \in Browsers : httpRequest'[b] = httpRequest[b] \/ httpRequest'[b] = NoRequest
  BY DEF Serve, AppInv, Shaped
<1>4. \A b \in Browsers : UploadAt(b, upload'[b], httpRequest'[b], gs)
  BY <1>1, <1>3, RequestEnds
<1>5. Shaped'
  <2>1. DOMAIN upload' = Browsers /\ upload' = [b \in Browsers |-> upload'[b]]
    BY DEF Disturb
  <2>2. DOMAIN httpRequest' = Browsers /\ httpRequest' = [b \in Browsers |-> httpRequest'[b]]
    BY DEF Serve, AppInv, Shaped
  <2> QED
    BY <2>1, <2>2 DEF Shaped
<1>6. Counters'
  BY DEF AppInv, Counters
<1> QED
  BY <1>4, <1>5, <1>6 DEF AppInv

\* A file that is removed disturbs the uploads to it.
LEMMA RemoveFileInv ==
  ASSUME AppInv, NEW c \in Browsers, RemoveFile(c) PROVE AppInv'
<1> DEFINE name == httpRequest[c].name
           gs == [files EXCEPT ![name] = Absent]
<1>1. /\ formatted' \in BOOLEAN /\ late' \in Nat /\ Serve(c, NoRequest)
      /\ attached' = attached /\ attaches' = attaches /\ admitted' = admitted
  BY DEF RemoveFile, CountLate, AppInv, Counters
<1>2. name \in AppNames
  BY ClientAt DEF UploadAt, RemoveFile
<1>3. CASE files' = gs /\ upload' = Disturb(Browsers, {name})
  <2>1. FilesOK(gs) /\ \A n \in AppNames \ {name} : gs[n] = files[n]
    BY <1>2 DEF AppInv, Counters, FilesOK, Contents
  <2> HIDE DEF gs, name
  <2> QED
    BY <1>1, <1>3, <2>1, DisturbAll
<1>4. CASE files' = files /\ upload' = upload
  <2>1. NoRequest \in HttpRequests /\ NoRequest.op = "none"
    BY ClientAt
  <2>2. Counters'
    BY <1>1, <1>4 DEF AppInv, Counters
  <2> QED
    BY <1>1, <1>4, <2>1, <2>2, ServeInv
<1> QED
  BY <1>3, <1>4 DEF RemoveFile

\* A store that is formatted disturbs every upload.
LEMMA FormatInv ==
  ASSUME AppInv, NEW c \in Browsers, Format(c) PROVE AppInv'
<1>1. /\ formatted' \in BOOLEAN /\ late' \in Nat /\ Serve(c, NoRequest)
      /\ attached' = attached /\ attaches' = attaches /\ admitted' = admitted
      /\ upload' = Disturb(Browsers, AppNames)
  BY DEF Format, CountLate, AppInv, Counters
<1>2. FilesOK(files')
  BY DEF Format, AppInv, Counters, FilesOK, Contents
<1> QED
  BY <1>1, <1>2, DisturbAll

\* A client asks for a file.
LEMMA BeginsServing ==
  ASSUME AppInv, NEW c \in Browsers, BeginServing(c) PROVE AppInv'
<1>1. upload' = upload /\ files' = files /\ Counters'
  BY DEF AppInv, Counters, BeginServing
<1>2. PICK name \in AppNames :
        /\ files[name] # Absent
        /\ Serve(c, HttpRequest("get", name, Len(Part(files[name], 0, CHUNK)),
                                Len(files[name])))
  BY DEF BeginServing
<1>3. files[name] \in Seq(UploadBlocks)
  BY <1>2 DEF AppInv, Counters, FilesOK, Contents
<1>4. Len(files[name]) \in Nat /\ Part(files[name], 0, CHUNK) \in Seq(UploadBlocks)
  BY <1>3, PartContents, AppLimits
<1> DEFINE first == Len(Part(files[name], 0, CHUNK))
           total == Len(files[name])
<1>5. first \in Nat /\ total \in Nat
  BY <1>4
<1>6. Serve(c, HttpRequest("get", name, first, total))
  BY <1>2
<1> HIDE DEF first, total
<1> QED
  BY <1>1, <1>5, <1>6, BeginServingInv

\* A chunk of a file that is served changes nothing.
LEMMA ServeChunkInv ==
  ASSUME AppInv, NEW c \in Browsers, ServeChunk(c) PROVE AppInv'
<1> DEFINE r == httpRequest[c]
           gone == ~formatted \/ files[r.name] = Absent
           chunk == IF gone THEN <<>> ELSE Part(files[r.name], r.offset, CHUNK)
           s == IF r.offset >= r.total \/ chunk = <<>> THEN NoRequest
                ELSE [r EXCEPT !.offset = @ + Len(chunk)]
<1>1. upload' = upload /\ files' = files /\ Counters' /\ Serve(c, s)
  BY DEF AppInv, Counters, ServeChunk
<1>2. /\ r \in HttpRequests /\ r.op = "get" /\ r.name \in AppNames
      /\ r.offset \in Nat
  BY ClientAt DEF ServeChunk, UploadAt, HttpRequests
<1>3. Len(chunk) \in Nat
  <2>1. CASE gone
    BY <2>1
  <2>2. CASE ~gone
    <3>1. files[r.name] \in Seq(UploadBlocks)
      BY <1>2, <2>2 DEF AppInv, Counters, FilesOK, Contents
    <3>2. Part(files[r.name], r.offset, CHUNK) \in Seq(UploadBlocks)
      BY <1>2, <3>1, PartContents, AppLimits
    <3> QED
      BY <2>2, <3>2
  <2> QED
    BY <2>1, <2>2
<1> HIDE DEF chunk
<1>4. s \in HttpRequests /\ s.op # "put" /\ (s.op \in {"delete", "get"} => s.name \in AppNames)
  <2>1. CASE r.offset >= r.total \/ chunk = <<>>
    <3>1. s = NoRequest
      BY <2>1
    <3> QED
      BY <3>1, ClientAt
  <2>2. CASE ~(r.offset >= r.total \/ chunk = <<>>)
    <3>1. s = [r EXCEPT !.offset = @ + Len(chunk)]
      BY <2>2
    <3>2. r.offset + Len(chunk) \in Nat
      BY <1>2, <1>3
    <3> HIDE DEF r, s
    <3> QED
      BY <1>2, <3>1, <3>2 DEF HttpRequests
  <2> QED
    BY <2>1, <2>2
<1> HIDE DEF s
<1> QED
  BY <1>1, <1>4, ServeInv

\* A device that is attached or detached changes no upload.
LEMMA PortInv ==
  ASSUME AppInv, Attach \/ Detach, admitted' \in Nat PROVE AppInv'
<1>1. httpRequest' = httpRequest /\ upload' = upload /\ files' = files
  BY DEF Attach, Detach
<1>2. Counters'
  <2>1. attached' \in BOOLEAN /\ formatted' = formatted /\ late' \in Nat
    <3>1. CASE Attach
      BY <3>1, AppLimits DEF AppInv, Counters, Attach
    <3>2. CASE Detach
      BY <3>2 DEF AppInv, Counters, Detach
    <3> QED
      BY <3>1, <3>2
  <2>2. attaches' \in 0..MaxAttaches
    <3>1. CASE Attach
      BY <3>1, AppLimits DEF AppInv, Counters, Attach
    <3>2. CASE Detach
      BY <3>2 DEF AppInv, Counters, Detach
    <3> QED
      BY <3>1, <3>2
  <2> QED
    BY <1>1, <2>1, <2>2 DEF AppInv, Counters
<1>3. Shaped' /\ \A c \in Browsers : UploadAt(c, upload'[c], httpRequest'[c], files')
  BY <1>1 DEF AppInv, Shaped
<1> QED
  BY <1>2, <1>3 DEF AppInv

\* There are as many writers as browsers at most.
LEMMA WritersFinite ==
  ASSUME TRUE
  PROVE  /\ IsFiniteSet(Writers) /\ Cardinality(Writers) \in Nat
         /\ Cardinality(Writers) <= Cardinality(Browsers)
         /\ Cardinality(Browsers) \in Nat
<1>1. Writers \subseteq Browsers /\ IsFiniteSet(Browsers)
  BY AppAssumption DEF Writers
<1> QED
  BY <1>1, FS_Subset, FS_CardinalityType

\* Every step of the store keeps its invariant.
LEMMA AppStep == AppInv /\ [AppNext]_appVars => AppInv'
<1> SUFFICES ASSUME AppInv, [AppNext]_appVars PROVE AppInv'
  OBVIOUS
<1>1. CASE UNCHANGED appVars
  <2>1. Counters' /\ Shaped' /\ \A c \in Browsers : UploadAt(c, upload'[c], httpRequest'[c], files')
    BY <1>1 DEF appVars, AppInv, Counters, Shaped
  <2> QED
    BY <2>1 DEF AppInv
<1>2. ASSUME NEW c \in Browsers, BeginUpload(c) PROVE AppInv'
  BY <1>2, BeginUploadInv
<1>3. ASSUME NEW c \in Browsers, PutBlock(c) PROVE AppInv'
  BY <1>3, PutBlockInv
<1>4. ASSUME NEW c \in Browsers, RequestMaintenance(c) PROVE AppInv'
  BY <1>4, RequestMaintenanceInv
<1>5. ASSUME NEW c \in Browsers, WriteBlock(c) PROVE AppInv'
  BY <1>5, WriteBlockInv
<1>6. ASSUME NEW c \in Browsers, RemoveFile(c) PROVE AppInv'
  BY <1>6, RemoveFileInv
<1>7. ASSUME NEW c \in Browsers, Format(c) PROVE AppInv'
  BY <1>7, FormatInv
<1>8. ASSUME NEW c \in Browsers, BeginServing(c) PROVE AppInv'
  BY <1>8, BeginsServing
<1>9. ASSUME NEW c \in Browsers, ServeChunk(c) PROVE AppInv'
  BY <1>9, ServeChunkInv
<1>10. ASSUME NEW c \in Browsers, BreakConnection(c) PROVE AppInv'
  BY <1>10, BreakConnectionInv
<1>11. CASE Attach \/ Detach
  <2>1. admitted' \in Nat
    BY <1>11, WritersFinite DEF Attach, Detach, AppInv, Counters
  <2> QED
    BY <1>11, <2>1, PortInv
<1> QED
  BY <1>1, <1>2, <1>3, <1>4, <1>5, <1>6, <1>7, <1>8, <1>9, <1>10, <1>11 DEF AppNext, AppClientNext

-----------------------------------------------------------------------------
(* The theorems.                                                           *)

\* The invariant of the store.
LEMMA AppInvariant == AppSpec => []AppInv
<1>1. AppInit => AppInv
  BY AppStart
<1>2. AppInv /\ [AppNext]_appVars => AppInv'
  BY AppStep
<1> QED
  BY <1>1, <1>2, PTL DEF AppSpec

\* The invariant says of an installed upload that it is whole.
LEMMA WholeOnceInstalled == AppInv => UploadIsWhole
<1> SUFFICES ASSUME AppInv, NEW c \in Browsers, upload[c].pc = "installed",
                    ~upload[c].disturbed
             PROVE  files[upload[c].name] = BlocksOf(c, upload[c].count)
  BY DEF UploadIsWhole
<1>1. UploadAt(c, upload[c], httpRequest[c], files)
  BY ClientAt
<1> QED
  BY <1>1 DEF UploadAt, BlocksOf, Blocks

\* UploadIsWhole for any number of browsers, files and blocks: an upload that the
\* page reports as installed is in flash as it was sent, unless another client
\* changed the file since (apps.html 54, local_apps.rs).
THEOREM UploadsAreWhole == AppSpec => []UploadIsWhole
BY AppInvariant, WholeOnceInstalled, PTL

\* Writes there may still be, and there have been.
InTime ==
  /\ late <= admitted /\ admitted <= Cardinality(Browsers)
  /\ attached => late + Cardinality(Writers) <= admitted

\* Nobody becomes a writer while a device is attached; a request that ends
\* makes room for its write.
LEMMA WritersWhileAttached ==
  ASSUME AppInv, InTime, httpRequest' = httpRequest \/ UNCHANGED Writers,
         UNCHANGED <<late, admitted, attached>>
  PROVE  InTime'
<1>1. Writers' = Writers
  BY DEF Writers
<1> QED
  BY <1>1 DEF InTime

\* A request that writes nothing leaves the bound, and one that has written makes
\* room for its write.
LEMMA NoMoreWriters ==
  ASSUME AppInv, InTime, NEW c \in Browsers, NEW r, Serve(c, r),
         r.op \notin {"put", "delete", "format"},
         admitted' = admitted, attached' = attached,
         \/ late' = late
         \/ /\ late' = IF attached THEN late + 1 ELSE late
            /\ c \in Writers
  PROVE  InTime'
<1>1. IsFiniteSet(Writers) /\ Cardinality(Writers) \in Nat
  BY WritersFinite
<1>2. Writers' = Writers \ {c}
  BY DEF Serve, AppInv, Shaped, Writers
<1>3. /\ Cardinality(Writers \ {c}) <= Cardinality(Writers)
      /\ Cardinality(Writers \ {c}) \in Nat
      /\ c \in Writers => Cardinality(Writers \ {c}) = Cardinality(Writers) - 1
  <2>1. CASE c \in Writers
    <3> DEFINE W == Writers
    <3>1. IsFiniteSet(W) /\ c \in W /\ Cardinality(W) \in Nat
      BY <1>1, <2>1
    <3> HIDE DEF W
    <3>2. /\ IsFiniteSet(W \ {c})
          /\ Cardinality(W \ {c}) = IF c \in W THEN Cardinality(W) - 1 ELSE Cardinality(W)
      BY <3>1, FS_RemoveElement
    <3>3. Cardinality(W \ {c}) \in Nat
      BY <3>2, FS_CardinalityType
    <3> QED
      BY <3>1, <3>2, <3>3 DEF W
  <2>2. CASE c \notin Writers
    <3> DEFINE n == Cardinality(Writers)
               m == Cardinality(Writers \ {c})
    <3>1. Writers \ {c} = Writers
      BY <2>2
    <3>2. m = n /\ n \in Nat
      BY <1>1, <3>1
    <3> HIDE DEF n, m
    <3>3. m <= n /\ m \in Nat
      BY <3>2
    <3> QED
      BY <2>2, <3>3 DEF n, m
  <2> QED
    BY <2>1, <2>2
<1>4. late \in Nat /\ admitted \in Nat /\ Cardinality(Browsers) \in Nat
  BY WritersFinite DEF AppInv, Counters
<1> DEFINE n == Cardinality(Writers)
           m == Cardinality(Writers \ {c})
<1>5. Cardinality(Writers)' = m
  BY <1>2
<1>6. late <= admitted /\ admitted <= Cardinality(Browsers) /\ (attached => late + n <= admitted)
  BY DEF InTime
<1>7. n \in Nat /\ m \in Nat /\ m <= n /\ (c \in Writers => m = n - 1)
  BY <1>1, <1>3
<1> HIDE DEF n, m
<1>8. late' <= admitted /\ (attached => late' + m <= admitted)
  <2>1. CASE attached
    BY <1>4, <1>6, <1>7, <2>1
  <2>2. CASE ~attached
    BY <1>4, <1>6, <1>7, <2>2
  <2> QED
    BY <2>1, <2>2
<1> QED
  BY <1>5, <1>6, <1>8 DEF InTime, n, m

\* While no device is attached, a request that begins changes no bound.
LEMMA WritersWhileDetached ==
  ASSUME InTime, ~attached, UNCHANGED <<late, admitted, attached>>
  PROVE  InTime'
BY DEF InTime

\* Every step of the store keeps the bound on the writes.
LEMMA InTimeStep == AppInv /\ InTime /\ [AppNext]_appVars => InTime'
<1> SUFFICES ASSUME AppInv, InTime, [AppNext]_appVars PROVE InTime'
  OBVIOUS
<1>1. CASE UNCHANGED appVars
  BY <1>1, WritersWhileAttached DEF appVars
<1>2. ASSUME NEW c \in Browsers, BeginUpload(c) PROVE InTime'
  BY <1>2, WritersWhileAttached DEF BeginUpload
<1>3. ASSUME NEW c \in Browsers, PutBlock(c) PROVE InTime'
  <2>1. CASE attached
    BY <1>3, <2>1, WritersWhileAttached DEF PutBlock, apps_write_allowed
  <2>2. CASE ~attached
    BY <1>3, <2>2, WritersWhileDetached DEF PutBlock
  <2> QED
    BY <2>1, <2>2
<1>4. ASSUME NEW c \in Browsers, RequestMaintenance(c) PROVE InTime'
  BY <1>4, WritersWhileDetached DEF RequestMaintenance, apps_write_allowed
<1>5. ASSUME NEW c \in Browsers, WriteBlock(c) \/ RemoveFile(c) \/ Format(c) PROVE InTime'
  <2>1. /\ Serve(c, NoRequest) /\ admitted' = admitted /\ attached' = attached
        /\ late' = IF attached THEN late + 1 ELSE late
    BY <1>5 DEF WriteBlock, RemoveFile, Format, CountLate
  <2>2. c \in Writers
    BY <1>5 DEF WriteBlock, RemoveFile, Format, Writers
  <2>3. NoRequest.op = "none"
    BY ClientAt
  <2> QED
    BY <2>1, <2>2, <2>3, NoMoreWriters
<1>6. ASSUME NEW c \in Browsers, BeginServing(c) PROVE InTime'
  <2>1. PICK name \in AppNames : 
          Serve(c, HttpRequest("get", name, Len(Part(files[name], 0, CHUNK)),
                               Len(files[name])))
    BY <1>6 DEF BeginServing
  <2>2. HttpRequest("get", name, Len(Part(files[name], 0, CHUNK)), Len(files[name])).op = "get"
    BY DEF HttpRequest
  <2>3. late' = late /\ admitted' = admitted /\ attached' = attached
    BY <1>6 DEF BeginServing
  <2> DEFINE r == HttpRequest("get", name, Len(Part(files[name], 0, CHUNK)), Len(files[name]))
  <2>4. Serve(c, r) /\ r.op = "get"
    BY <2>1, <2>2
  <2> HIDE DEF r
  <2> QED
    BY <2>3, <2>4, NoMoreWriters
<1>7. ASSUME NEW c \in Browsers, ServeChunk(c) PROVE InTime'
  <2>1. httpRequest[c].op = "get" /\ httpRequest[c] \in HttpRequests
    BY <1>7, ClientAt DEF ServeChunk
  <2>2. PICK o : \/ Serve(c, NoRequest)
                 \/ Serve(c, [httpRequest[c] EXCEPT !.offset = o])
    BY <1>7 DEF ServeChunk
  <2>3. [httpRequest[c] EXCEPT !.offset = o].op = "get"
    BY <2>1 DEF HttpRequests
  <2>4. late' = late /\ admitted' = admitted /\ attached' = attached
    BY <1>7 DEF ServeChunk
  <2>5. NoRequest.op = "none"
    BY ClientAt
  <2> QED
    BY <2>2, <2>3, <2>4, <2>5, NoMoreWriters
<1>8. ASSUME NEW c \in Browsers, BreakConnection(c) PROVE InTime'
  <2>1. late' = late /\ admitted' = admitted /\ attached' = attached
    BY <1>8 DEF BreakConnection
  <2>2. Serve(c, NoRequest) \/ httpRequest' = httpRequest
    BY <1>8 DEF BreakConnection
  <2>3. NoRequest.op = "none"
    BY ClientAt
  <2> QED
    BY <2>1, <2>2, <2>3, NoMoreWriters, WritersWhileAttached
<1>9. CASE Attach
  <2>1. Writers' = Writers /\ late' = 0 /\ admitted' = Cardinality(Writers)
    BY <1>9 DEF Attach, Writers
  <2> QED
    BY <2>1, WritersFinite DEF InTime
<1>10. CASE Detach
  <2>1. attached' = FALSE /\ late' = late /\ admitted' = admitted
    BY <1>10 DEF Detach
  <2> QED
    BY <2>1 DEF InTime
<1> QED
  BY <1>1, <1>2, <1>3, <1>4, <1>5, <1>6, <1>7, <1>8, <1>9, <1>10 DEF AppNext, AppClientNext

\* The bound on the writes.
LEMMA InTimeInvariant == AppSpec => []InTime
<1>1. AppInit => InTime
  BY WritersFinite DEF AppInit, InTime
<1>2. AppInv /\ InTime /\ [AppNext]_appVars => InTime'
  BY InTimeStep
<1> QED
  BY <1>1, <1>2, AppInvariant, PTL DEF AppSpec

\* LateWritesBounded for any number of browsers and devices: while a device is
\* attached the flash is written only by the requests admitted before, once each
\* (http.rs, README 1012).
THEOREM LateWrites == AppSpec => []LateWritesBounded
<1>1. InTime => LateWritesBounded
  BY DEF InTime, LateWritesBounded
<1> QED
  BY <1>1, InTimeInvariant, PTL

\* The type invariant.
LEMMA AppTypesFollow == AppInv /\ InTime => AppTypeOK
<1> SUFFICES ASSUME AppInv, InTime PROVE AppTypeOK
  OBVIOUS
<1>1. formatted \in BOOLEAN /\ attached \in BOOLEAN /\ attaches \in 0..MaxAttaches
  BY DEF AppInv, Counters
<1>2. ASSUME NEW n \in AppNames
      PROVE  files[n] = Absent \/ /\ Len(files[n]) <= MaxLength
                                  /\ \A p \in DOMAIN files[n] : files[n][p] \in UploadBlocks
  BY DEF AppInv, Counters, FilesOK, Contents
<1>3. ASSUME NEW c \in Browsers
      PROVE  /\ httpRequest[c].op \in {"none", "put", "delete", "format", "get"}
             /\ upload[c].pc \in {"none", "uploading", "installed", "failed"}
             /\ upload[c].next <= upload[c].length
  <2>1. httpRequest[c].op \in {"none", "put", "delete", "format", "get"}
    BY ClientAt DEF HttpRequests
  <2>2. /\ upload[c].pc \in {"none", "uploading", "installed", "failed"}
        /\ upload[c].next \in Nat /\ upload[c].length \in Nat
        /\ upload[c].next = 0 \/ upload[c].next < upload[c].length
    BY ClientAt, UploadFields, AppLimits DEF UploadAt
  <2> QED
    BY <2>1, <2>2
<1>4. {admitted, late} \subseteq 0..Cardinality(Browsers)
  BY WritersFinite DEF AppInv, Counters, InTime
<1> QED
  BY <1>1, <1>2, <1>3, <1>4 DEF AppTypeOK
==============================================================================
