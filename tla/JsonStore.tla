----------------------------- MODULE JsonStore ------------------------------
(***************************************************************************)
(* JsonStore (entry/src/main/ets/model/JsonStore.ets): one JSON file that  *)
(* the UI process and the VPN extension process share.  Each name has one  *)
(* writing process; the other one reads.  Within a process the calls are   *)
(* synchronous, so between two file operations only the other process      *)
(* acts, and either process may be killed.                                 *)
(*                                                                         *)
(* The file system is external: names for inodes, open descriptors that    *)
(* keep an inode alive, rename and unlink that touch names only, a write   *)
(* that may be short when the storage fills up, and inodes that are freed  *)
(* with the last name and descriptor.                                      *)
(***************************************************************************)
EXTENDS Utf8, Filters, SequencesExt

CONSTANTS Docs,         \* the JSON documents written, as UTF-16 code units
          Inodes,
          None

NUL == 0

\* A JSON object or array ends in a bracket, one byte, has no NUL and is no
\* proper prefix of another.
ASSUME DocsAssumption ==
  /\ Docs \subseteq Seq(Nat)
  /\ \A d \in Docs : /\ d # <<>> /\ Last(d) < 128
                     /\ \A i \in DOMAIN d : d[i] # NUL /\ d[i] <= 65535
  /\ \A d, e \in Docs : IsPrefix(d, e) => d = e

ASSUME NoneAssumption == None \notin Inodes \cup Docs

VARIABLES
  data,         \* contents of the inodes
  path, tmp,    \* what `<name>.json` and `<name>.json.tmp` name
  wpc, wdoc,    \* the writer: where it is in write(), and the content
  wfd,
  rpc, size,    \* the reader: where it is in read(), and what stat told it
  rfd,
  raw,          \* the string the last read() returned
  seen          \* history: documents the file held while it was read, None
                \* for anything that is not a whole document

fsys == <<data, path, tmp>>
writer == <<wpc, wdoc, wfd>>
reader == <<rpc, size, rfd, raw, seen>>
vars == <<fsys, writer, reader>>

\* The document that `<name>.json` holds when it names p.
Holds(p) == IF p # None /\ \E d \in Docs : data[p] = encodeUtf8(d)
            THEN CHOOSE d \in Docs : data[p] = encodeUtf8(d)
            ELSE None

Init ==
  /\ data = [i \in Inodes |-> <<>>]
  /\ path = None /\ tmp = None
  /\ wpc = "idle" /\ wdoc = <<>> /\ wfd = None
  /\ rpc = "idle" /\ size = 0 /\ rfd = None /\ raw = <<>> /\ seen = {}

-----------------------------------------------------------------------------
(* JsonStore.write.                                                        *)

\* Inodes that no name and no descriptor holds; their content is gone.
FreeInodes == Inodes \ {path, tmp, wfd, rfd}

Free == data' = [i \in Inodes |-> IF i \in {path', tmp', wfd', rfd'} THEN data[i]
                                  ELSE <<>>]

\* openSync(tmp, CREATE | TRUNC): a file left by a killed writer is reused.
write_open(d) ==
  /\ wpc = "idle"
  /\ wpc' = "open" /\ wdoc' = d
  /\ wfd' \in IF tmp = None THEN FreeInodes ELSE {tmp}
  /\ tmp' = wfd'
  /\ data' = [data EXCEPT ![wfd'] = <<>>]
  /\ UNCHANGED <<path, reader>>

\* writeSync and closeSync; the number of bytes written is not looked at.
write_data ==
  /\ wpc = "open"
  /\ \E n \in 0 .. Len(encodeUtf8(wdoc)) :
       data' = [data EXCEPT ![wfd] = SubSeq(encodeUtf8(wdoc), 1, n)]
  /\ wpc' = "written" /\ wfd' = None
  /\ UNCHANGED <<path, tmp, wdoc, reader>>

\* writeSync throws: the descriptor is closed and nothing is renamed.
write_throws ==
  /\ wpc = "open"
  /\ wpc' = "idle" /\ wdoc' = <<>> /\ wfd' = None
  /\ UNCHANGED <<fsys, reader>>

\* The path names another inode, or none.
Name(p) == /\ path' = p
           /\ seen' = IF rpc = "idle" THEN seen ELSE seen \cup {Holds(p)}
           /\ UNCHANGED <<rpc, size, rfd, raw>>

\* Mutant: the temporary name is kept, as a second link to the file.
write_rename_linked ==
  /\ wpc = "written"
  /\ Name(tmp)
  /\ wpc' = "idle" /\ wdoc' = <<>>
  /\ UNCHANGED <<tmp, wfd>>
  /\ Free

\* renameSync.
write_rename ==
  /\ wpc = "written"
  /\ Name(tmp)
  /\ tmp' = None
  /\ wpc' = "idle" /\ wdoc' = <<>>
  /\ UNCHANGED wfd
  /\ Free

\* JsonStore.remove; an absent file is not an error.
remove ==
  /\ wpc = "idle"
  /\ Name(None)
  /\ UNCHANGED <<tmp, writer>>
  /\ Free

\* The writing process is killed.
WriterKilled ==
  /\ wpc # "idle"
  /\ wpc' = "idle" /\ wdoc' = <<>> /\ wfd' = None
  /\ UNCHANGED <<fsys, reader>>

-----------------------------------------------------------------------------
(* JsonStore.read.                                                         *)

\* read() returns: the string, or '' when a call has thrown.
Return(text) == /\ raw' = text
                /\ rpc' = "idle" /\ size' = 0 /\ rfd' = None
                /\ UNCHANGED <<seen, path, tmp, writer>>
                /\ Free

\* statSync(path); the buffer is allocated with the size it tells.
read_stat ==
  /\ rpc = "idle" /\ path # None
  /\ rpc' = "sized" /\ size' = Len(data[path])
  /\ seen' = {Holds(path)} /\ raw' = <<>>
  /\ UNCHANGED <<rfd, fsys, writer>>

\* statSync throws: there is no such file.
read_absent ==
  /\ rpc = "idle" /\ path = None
  /\ raw' = <<>> /\ seen' = {}
  /\ UNCHANGED <<rpc, size, rfd, fsys, writer>>

\* openSync(path): the path is looked up again.
read_open ==
  /\ rpc = "sized" /\ path # None
  /\ rpc' = "opened" /\ rfd' = path
  /\ UNCHANGED <<size, raw, seen, fsys, writer>>

\* openSync throws: the file has been removed meanwhile.
read_gone == rpc = "sized" /\ path = None /\ Return(<<>>)

\* readSync fills the zeroed buffer as far as the file goes.
Fit(s, n) == [i \in 1 .. n |-> IF i <= Len(s) THEN s[i] ELSE NUL]

read_data == rpc = "opened" /\ Return(decodeUtf8(Fit(data[rfd], size)))

\* The reading process is killed.
ReaderKilled ==
  /\ rpc # "idle"
  /\ rpc' = "idle" /\ size' = 0 /\ rfd' = None /\ raw' = <<>> /\ seen' = {}
  /\ UNCHANGED <<path, tmp, writer>>
  /\ Free

-----------------------------------------------------------------------------

\* Mutant: whatever is not empty is taken for a document.
load_any(text) == IF text = <<>> THEN None ELSE text

\* TrafficStatsStore.load on what read() returned: null for an absent file and
\* for what JSON.parse refuses.
load(text) == IF text \in Docs THEN text ELSE None

Write == (\E d \in Docs : write_open(d)) \/ write_data \/ write_throws \/ write_rename

Read == read_stat \/ read_absent \/ read_open \/ read_gone \/ read_data

Next == Write \/ remove \/ WriterKilled \/ Read \/ ReaderKilled

Spec == Init /\ [][Next]_vars

-----------------------------------------------------------------------------

\* JsonStore: names and descriptors; a descriptor is held just while a
\* call that has opened the file is under way, so read() never reads one it
\* does not have.
TypeOK ==
  /\ DOMAIN data = Inodes
  /\ {path, tmp, wfd, rfd} \subseteq Inodes \cup {None}
  /\ wpc \in {"idle", "open", "written"} /\ (wfd # None) = (wpc = "open")
  /\ rpc \in {"idle", "sized", "opened"} /\ (rfd # None) = (rpc = "opened")

\* JsonStore.write: no step changes the contents of a file that can be read,
\* neither the one the path names nor the one a reader has open, whatever
\* killed writers have left behind: content is replaced only by rename.
PublishedStable ==
  [][\A i \in ({path, rfd} \cap {path', rfd'}) \ {None} : data'[i] = data[i]]_vars

\* TrafficStatsStore.load: a document it returns was the whole content of the
\* file at some moment during the read; a torn or short one is taken for absent.
LoadGenuine == load(raw) # None => load(raw) \in seen

\* A read() during which the path named whole documents only.
WholeFiles == rpc = "idle" /\ None \notin seen

\* read() of a file that nobody replaced gives back the very string that was
\* written, surrogate pairs, lone surrogates and the boundaries of the encoded
\* lengths included.
RoundTrip == \A d \in Docs : WholeFiles /\ seen = {d} => raw = d

\* Even torn, what read() returns is the beginning of one document, with NULs
\* behind it at most: it never mixes two documents, and decodeUtf8 makes no
\* character of the bytes that are left of one.
OneDocument ==
  WholeFiles => \/ raw = <<>>
                \/ \E d \in Docs : IsPrefix(Without(raw, {NUL}), d)

\* The comment on JsonStore: "the reader process never observes a torn file".
\* When every file that the path named during a read() was whole, read()
\* returns one of them (or '', when the file was removed meanwhile).
NoTornRead == WholeFiles /\ raw # <<>> => raw \in seen
=============================================================================
