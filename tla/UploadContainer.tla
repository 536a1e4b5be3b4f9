--------------------------- MODULE UploadContainer ---------------------------
(***************************************************************************)
(* The encrypted storage format of uploads (core/upload_encryption.py): an *)
(* authenticated header and one AEAD frame per chunk of the plaintext.     *)
(*                                                                         *)
(* The state machine follows one stored file.  A client streams the body   *)
(* in pieces of any size and the server cuts it into frames; the file may  *)
(* later be rotated to another key, a legacy plaintext file may be         *)
(* encrypted in place, and the disk may damage the file once.  A byte is   *)
(* modelled by its position in the upload the owner meant to store (0 is a *)
(* wrong byte), so any reordering, loss or repetition shows.               *)
(***************************************************************************)
EXTENDS Integers, Sequences

CONSTANTS
  ChunkSize,        \* UPLOAD_ENCRYPTION_CHUNK_SIZE
  ContainerSizes,   \* the declared sizes explored, size_bytes
  ConfiguredMax,    \* upload_max_size_bytes
  ContainerKeys,    \* key ids of the ring
  NoKey, NoFile

ASSUME ContainerAssumption ==
  /\ ChunkSize \in Nat \ {0} /\ ContainerSizes \subseteq Nat /\ ConfiguredMax \in Nat
  /\ ContainerKeys # {} /\ NoKey \notin ContainerKeys

VARIABLES
  cphase,    \* "receiving", "stored", "failed"
  csize,     \* size_bytes of the upload row
  csum,      \* whether the owner declared a checksum
  ckey,      \* storage_key_id of the row; NoKey: storage_encryption_version 0
  cpending,  \* store_upload_content's buffer
  cbody,     \* every byte received so far
  cframes,   \* frames written so far
  cfile,     \* the stored file
  cgenuine,  \* history: the body that was stored
  cdamaged   \* history: the disk changed the file

containerVars ==
  <<cphase, csize, csum, ckey, cpending, cbody, cframes, cfile, cgenuine, cdamaged>>

U == "upload"       \* the upload the row describes
V == "other"        \* another upload of the same installation

-----------------------------------------------------------------------------
\* AES-GCM (cryptography library): a box opens only with the key, the nonce and
\* the associated data it was sealed with.
Seal(key, nonce, plain, aad) == [key |-> key, nonce |-> nonce, plain |-> plain, aad |-> aad]

Opens(box, key, nonce, aad) == box.key = key /\ box.nonce = nonce /\ box.aad = aad

\* The header: its fields and the tag over them. The fresh random nonce prefix
\* is fresh per encryption run; one prefix per upload and key is the weakest case,
\* in which frames of an earlier run under the same key still open.
build_upload_encryption_header(u, k, size) ==
  LET canonical == [upload |-> u, key |-> k, size |-> size, prefix |-> <<u, k>>]
  IN  [canonical |-> canonical,
       tag |-> Seal(<<k, u>>, <<canonical.prefix, "header">>, <<>>, canonical)]

\* Header checks of both readers. expected_key_id NoKey stands for None.
read_upload_encryption_header(header, u, expected_key_id) ==
  LET c == header.canonical IN
  /\ c.upload = u
  /\ expected_key_id # NoKey => c.key = expected_key_id
  /\ c.key \in ContainerKeys
  /\ Opens(header.tag, <<c.key, c.upload>>, <<c.prefix, "header">>, c)

\* Frame number index (from 0) for a chunk of plaintext.
encrypt_chunk(header, index, chunk) ==
  LET c == header.canonical IN
  [index |-> index, length |-> Len(chunk),
   box |-> Seal(<<c.key, c.upload>>, <<c.prefix, index>>, chunk, <<c, index, Len(chunk)>>)]

MinOf(a, b) == IF a < b THEN a ELSE b

\* bytes[start : start + length]
Slice(bytes, start, length) == [o \in 1 .. length |-> bytes[start + o]]

\* Number of frames of a body, and the plaintext length of frame i (from 1).
FrameCount(size) == (size + ChunkSize - 1) \div ChunkSize
ChunkLength(size, i) == MinOf(ChunkSize, size - (i - 1) * ChunkSize)

\* encrypt_plaintext_file and reencrypt_upload_file read and write whole chunks.
encrypt_plaintext_file(u, k, plain) ==
  LET header == build_upload_encryption_header(u, k, Len(plain))
  IN  [header |-> header,
       frames |-> [i \in 1 .. FrameCount(Len(plain)) |->
         encrypt_chunk(header, i - 1,
           Slice(plain, (i - 1) * ChunkSize, ChunkLength(Len(plain), i)))],
       trailing |-> FALSE]

\* A loop that takes the index of a frame from the frame itself.
FrameAcceptedAnyOrder(file, i) ==
  LET c == file.header.canonical
      f == file.frames[i]
  IN  /\ i <= Len(file.frames)
      /\ f.length = ChunkLength(c.size, i)
      /\ Opens(f.box, <<c.key, c.upload>>, <<c.prefix, f.index>>, <<c, f.index, f.length>>)

\* One turn of the reading loop accepts frame i.
FrameAccepted(file, i) ==
  LET c == file.header.canonical
      f == file.frames[i]
  IN  /\ i <= Len(file.frames)
      /\ f.index = i - 1
      /\ f.length = ChunkLength(c.size, i)
      /\ Opens(f.box, <<c.key, c.upload>>, <<c.prefix, f.index>>, <<c, f.index, f.length>>)

\* The frame that holds byte p of a body (from 1), and its place in that frame.
FrameOf(p) == ((p - 1) \div ChunkSize) + 1
ByteOf(p) == ((p - 1) % ChunkSize) + 1

\* The bytes a reader yields before it stops, which are those of the frames before the
\* first one it does not accept, and whether it stops without an error: all frames
\* accepted, nothing after the last one.
_iter_decrypted_frames(file) ==
  LET size == file.header.canonical.size
      n    == FrameCount(size)
      read == {p \in 1 .. size : \A i \in 1 .. FrameOf(p) : FrameAccepted(file, i)}
  IN  [out |-> [p \in read |-> file.frames[FrameOf(p)].box.plain[ByteOf(p)]],
       ok  |-> /\ \A i \in 1 .. n : FrameAccepted(file, i)
               /\ Len(file.frames) = n /\ ~file.trailing]

Refused == [out |-> <<>>, ok |-> FALSE]

\* The tools' reader. expected_checksum is the genuine body's, when declared.
validate_encrypted_upload_file(file, u, size, checksum) ==
  LET r == _iter_decrypted_frames(file) IN
  /\ read_upload_encryption_header(file.header, u, NoKey)
  /\ file.header.canonical.size = size
  /\ r.ok
  /\ checksum # <<>> => r.out = checksum

\* The download's reader streams, so chunks leave before a later frame fails.
iter_decrypted_upload_async(file, u, expected_key_id, size) ==
  IF /\ read_upload_encryption_header(file.header, u, expected_key_id)
     /\ file.header.canonical.size = size
  THEN _iter_decrypted_frames(file)
  ELSE Refused

\* Rotation: decrypt under the key of the header, encrypt under the target.
reencrypt_upload_file(file, u, target, size) ==
  encrypt_plaintext_file(u, target,
    iter_decrypted_upload_async(file, u, file.header.canonical.key, size).out)

-----------------------------------------------------------------------------
Intended == [i \in 1 .. csize |-> i]

Declared == IF csum THEN Intended ELSE <<>>

\* A pending upload, or a finalized one whose file is legacy plaintext.
ContainerInit ==
  /\ csize \in ContainerSizes
  /\ csum \in BOOLEAN
  /\ ckey = NoKey
  /\ cpending = <<>> /\ cbody = <<>> /\ cframes = <<>>
  /\ cdamaged = FALSE
  /\ \/ cphase = "receiving" /\ cfile = NoFile /\ cgenuine = <<>>
     \/ cphase = "stored" /\ cfile = [plain |-> Intended] /\ cgenuine = Intended

\* The key a store uses: the ring's active key when the request starts, the
\* header being written first.
StoreKey == CHOOSE k \in ContainerKeys : TRUE

StoreHeader == build_upload_encryption_header(U, StoreKey, csize)

\* Full chunks leave the buffer, the rest waits.
Emitted(buffer) == Len(buffer) \div ChunkSize

Receive(n, wrong) ==
  LET piece  == [i \in 1 .. n |-> IF wrong /\ i = n THEN 0 ELSE Len(cbody) + i]
      buffer == cpending \o piece
      full   == Emitted(buffer)
      start  == Len(cframes)
  IN  /\ cphase = "receiving"
      /\ \/ /\ Len(cbody) + n > MinOf(ConfiguredMax, csize)
            /\ cphase' = "failed"
            /\ UNCHANGED <<cpending, cbody, cframes>>
         \/ /\ Len(cbody) + n <= MinOf(ConfiguredMax, csize)
            /\ cbody' = cbody \o piece
            /\ cframes' = cframes \o [i \in 1 .. full |->
                 encrypt_chunk(StoreHeader, start + i - 1,
                   Slice(buffer, (i - 1) * ChunkSize, ChunkSize))]
            /\ cpending' = Slice(buffer, full * ChunkSize, Len(buffer) - full * ChunkSize)
            /\ UNCHANGED cphase
      /\ UNCHANGED <<csize, csum, ckey, cfile, cgenuine, cdamaged>>

\* The end of the stream: size and checksum, the last short frame, finalize().
Finalize ==
  /\ cphase = "receiving"
  /\ \/ /\ Len(cbody) # csize \/ (csum /\ cbody # Intended)
        /\ cphase' = "failed"
        /\ UNCHANGED <<cpending, cframes, ckey, cfile, cgenuine>>
     \/ /\ Len(cbody) = csize /\ (csum => cbody = Intended)
        /\ cfile' = [header |-> StoreHeader,
                     frames |-> IF cpending = <<>> THEN cframes
                                ELSE Append(cframes, encrypt_chunk(StoreHeader, Len(cframes), cpending)),
                     trailing |-> FALSE]
        /\ cphase' = "stored"
        /\ ckey' = StoreKey
        /\ cgenuine' = cbody
        /\ cpending' = <<>>
        /\ cframes' = <<>>
  /\ UNCHANGED <<csize, csum, cbody, cdamaged>>

Encrypted == cphase = "stored" /\ "header" \in DOMAIN cfile

\* crypto_tool on this file: encrypt a plaintext body, or rotate to the target,
\* refusing what does not validate.
Rewrite(target) ==
  /\ cphase = "stored"
  /\ \/ /\ ~Encrypted
        /\ Len(cfile.plain) = csize
        /\ csum => cfile.plain = Intended
        /\ cfile' = encrypt_plaintext_file(U, target, cfile.plain)
     \/ /\ Encrypted
        /\ validate_encrypted_upload_file(cfile, U, csize, Declared)
        /\ cfile.header.canonical.key # target
        /\ cfile' = reencrypt_upload_file(cfile, U, target, csize)
  /\ ckey' = target
  /\ UNCHANGED <<cphase, csize, csum, cpending, cbody, cframes, cgenuine, cdamaged>>

\* Files the same installation holds or held: of another upload, and of this
\* one under another key.
Foreign ==
  {encrypt_plaintext_file(w, k, cgenuine) : w \in {U, V}, k \in ContainerKeys}

Without(frames, i) ==
  [j \in 1 .. Len(frames) - 1 |-> frames[IF j < i THEN j ELSE j + 1]]

\* What a fault of the disk may leave in place of the frames of the file.
DamagedFrames(frames) ==
  {Without(frames, i) : i \in DOMAIN frames}
    \cup {[frames EXCEPT ![i] = frames[j]] : i, j \in DOMAIN frames}
    \cup {[frames EXCEPT ![i] = frames[j], ![j] = frames[i]] : i, j \in DOMAIN frames}
    \cup {Append(frames, frames[i]) : i \in DOMAIN frames}
    \cup UNION {{[frames EXCEPT ![i] = g.frames[i]] : i \in DOMAIN frames} : g \in Foreign}

Damage ==
  /\ Encrypted /\ ~cdamaged
  /\ cfile' \in {[cfile EXCEPT !.frames = fs] : fs \in DamagedFrames(cfile.frames)}
              \cup {[cfile EXCEPT !.header = g.header] : g \in Foreign}
              \cup {[cfile EXCEPT !.trailing = TRUE]}
              \cup Foreign
  /\ cfile' # cfile
  /\ cdamaged' = TRUE
  /\ UNCHANGED <<cphase, csize, csum, ckey, cpending, cbody, cframes, cgenuine>>

ContainerNext ==
  \/ \E n \in 1 .. ChunkSize + 1, wrong \in BOOLEAN : Receive(n, wrong)
  \/ Finalize
  \/ \E target \in ContainerKeys : Rewrite(target)
  \/ Damage

ContainerSpec == ContainerInit /\ [][ContainerNext]_containerVars

-----------------------------------------------------------------------------
\* Some bytes are the beginning of a body.
Begins(bytes, body) ==
  \A p \in DOMAIN bytes :
    p \in DOMAIN body /\ \A q \in 1 .. p : q \in DOMAIN bytes /\ bytes[q] = body[q]

\* Downloads are genuine (iter_decrypted_upload_async, store_upload_content).
\* However the body arrived, and after any number of rotations, a download
\* returns the stored body; from a damaged file it returns a prefix of that body
\* at most, and reports success only when it returned all of it.
DownloadsGenuine ==
  Encrypted =>
    LET r == iter_decrypted_upload_async(cfile, U, ckey, csize) IN
    /\ Begins(r.out, cgenuine)
    /\ r.ok => r.out = cgenuine
    /\ ~cdamaged => r.ok

=============================================================================
