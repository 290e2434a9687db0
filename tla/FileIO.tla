------------------------------- MODULE FileIO -------------------------------
(* The handles behind the nmos machine's file ports, emulator/file_io.c,   *)
(* and the ports that use them in emulator/emulator.c.  Handle 1 is the    *)
(* input; a handle is a file's or a directory's.  io is the record of the  *)
(* handles with the disk; a wrong use ends the emulation, aborted.  A      *)
(* directory is a sequence of entries, in the order in which scandir lists *)
(* them: a name, whether it is a directory, and whether it is read only.   *)
EXTENDS Integers, Sequences, SequencesExt

CONSTANTS FILE_IO_MAX_HANDLES

----
\* The C library's files, external code.  A disk maps names to what they hold; an open file
\* is a record: its name, its mode, what it holds, and where in it the next byte is.  A file
\* that is written reaches the disk when it is closed, or when its position is set: what is
\* written fits the library's buffer.

EOF == -1
NoFile == [name |-> <<>>, mode |-> "closed", data |-> <<>>, at |-> 0]

\* fopen: reading wants the file to exist, writing makes it anew.
FOpens(disk, name, mode) == name # <<>> /\ (mode = "wb" \/ name \in DOMAIN disk)
FOpen(disk, name, mode) ==
  [name |-> name, mode |-> mode, data |-> IF mode = "wb" THEN <<>> ELSE disk[name], at |-> 0]
DiskOpened(disk, name, mode) ==
  IF mode = "wb" THEN [n \in DOMAIN disk \cup {name} |-> IF n = name THEN <<>> ELSE disk[n]] ELSE disk

\* fgetc, and the file behind it.
FPeek(file) == IF file.mode = "rb" /\ file.at < Len(file.data) THEN file.data[file.at + 1] ELSE EOF
FGot(file) == IF FPeek(file) = EOF THEN file ELSE [file EXCEPT !.at = @ + 1]

\* fputc: at the end, or over what is there; a file opened to read takes nothing.
FPut(file, byte) ==
  IF file.mode = "rb" THEN file
  ELSE [file EXCEPT !.at = @ + 1,
                    !.data = [k \in 1 .. (IF file.at < Len(@) THEN Len(@) ELSE file.at + 1) |->
                                IF k = file.at + 1 THEN byte ELSE @[k]]]

FRewind(file) == [file EXCEPT !.at = 0]

\* The disk, once the file's buffer is flushed.
DiskFlushed(disk, file) == IF file.mode = "wb" THEN [disk EXCEPT ![file.name] = file.data] ELSE disk

----
\* The handles

Handles == 1 .. FILE_IO_MAX_HANDLES
NoDir == [listing |-> <<>>, pos |-> -1]
Dot == 46
EndOfFile == 4

FilesInit(input, disk, folders) ==
  [files |-> [h \in Handles |-> IF h = 1 THEN input ELSE NoFile], dirs |-> [h \in Handles |-> NoDir],
   disk |-> disk, folders |-> folders, aborted |-> FALSE]

Abort(io) == [io EXCEPT !.aborted = TRUE]
Answer(io, value) == [io |-> io, value |-> value]

IsDir(io, h) == io.dirs[h] # NoDir
FreeHandles(io) == {h \in Handles \ {1} : io.files[h] = NoFile /\ ~IsDir(io, h)}
First(handles) == CHOOSE h \in handles : \A other \in handles : h <= other

\* file_open_with_mode: a free handle is wanted even for a file that cannot be opened.
FileOpen(io, name, mode) ==
  IF FreeHandles(io) = {} THEN Answer(Abort(io), 0)
  ELSE IF ~FOpens(io.disk, name, mode) THEN Answer(io, 0)
  ELSE LET h == First(FreeHandles(io))
       IN Answer([io EXCEPT !.files[h] = FOpen(io.disk, name, mode), !.disk = DiskOpened(@, name, mode)], h)

Entry(e) ==
  <<(IF e.isDir THEN 1 ELSE 0) + (IF ~e.isDir /\ e.readonly THEN 2 ELSE 0)>> \o e.name \o <<0>>
Listing(entries) ==
  FoldLeft(LAMBDA bytes, e : IF e.name[1] = Dot THEN bytes ELSE bytes \o Entry(e), <<>>, entries)

\* The listing is made when the directory is opened; what changes later does not show in it.
DirOpen(io, name) ==
  IF FreeHandles(io) = {} THEN Answer(Abort(io), 0)
  ELSE IF name \notin DOMAIN io.folders THEN Answer(io, 0)
  ELSE LET h == First(FreeHandles(io))
       IN Answer([io EXCEPT !.dirs[h] = [listing |-> Listing(io.folders[name]), pos |-> 0]], h)

IsOpen(io, h) == h \in Handles /\ io.files[h] # NoFile
DirEnded(io, h) == io.dirs[h].pos >= Len(io.dirs[h].listing)

Restarted(io, h) == [io EXCEPT !.files[h] = FRewind(@), !.disk = DiskFlushed(@, io.files[h])]

\* A read at the end of a file answers a 4, and starts it again.
ReadFile(io, h) ==
  LET file == io.files[h] IN
  IF FPeek(file) = EOF THEN Answer(Restarted(io, h), EndOfFile)
  ELSE Answer([io EXCEPT !.files[h] = FGot(@)], FPeek(file))

\* The read port.
PortRead(io, h) ==
  IF h \in Handles /\ IsDir(io, h)
    THEN IF DirEnded(io, h) THEN Answer(io, EndOfFile)
         ELSE Answer([io EXCEPT !.dirs[h].pos = @ + 1], io.dirs[h].listing[io.dirs[h].pos + 1])
  ELSE IF IsOpen(io, h) THEN ReadFile(io, h) ELSE Answer(Abort(io), 0)

\* The eof ports: at the end a file starts again.
FileAtEnd(io, h) ==
  IF FPeek(io.files[h]) = EOF THEN Answer(Restarted(io, h), 128) ELSE Answer(io, 0)
PortEof(io, h) ==
  IF h \in Handles /\ IsDir(io, h) THEN Answer(io, IF DirEnded(io, h) THEN 128 ELSE 0)
  ELSE IF IsOpen(io, h) THEN FileAtEnd(io, h) ELSE Answer(Abort(io), 0)

PortWrite(io, h, byte) == IF IsOpen(io, h) THEN [io EXCEPT !.files[h] = FPut(@, byte)] ELSE Abort(io)

\* file_close; the standard handles stay open.
Released(io, h) ==
  [io EXCEPT !.disk = DiskFlushed(@, io.files[h]), !.files[h] = NoFile, !.dirs[h] = NoDir]
PortClose(io, h) == IF h > 1 /\ h \in Handles /\ (IsDir(io, h) \/ IsOpen(io, h)) THEN Released(io, h) ELSE Abort(io)

\* files_destroy: closes what is open, and counts it.
Unclosed(io) == {h \in Handles \ {1} : IsDir(io, h) \/ IsOpen(io, h)}
FilesDestroy(io) == FoldLeft(Released, io, SetToSeq(Unclosed(io)))

=============================================================================
