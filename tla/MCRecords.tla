----------------------------- MODULE MCRecords -----------------------------
(* What is read from the files of a trash root and what is done with it: the  *)
(* place an entry is restored to, the directorysizes cache, the listing a     *)
(* command chooses its entries from, and the text of a sidecar.  Each         *)
(* behaviour takes the steps of one part; the variables of the others are Off,*)
(* and those of RestorePlace stay as they are at first.                       *)
EXTENDS RestorePlace, SequencesExt

CONSTANT Off

VARIABLES
  part,
  data, mtime, cache, lock, sizesPc, job, now, trees, swaps, damage, crashes, published, raced,
  sidecar, selectionData, broken, last, others, cmd, phase, at, unread, lines, chosen, answer,
  steady, acted,
  text, wrote, pos, header, got, verdict

sizesVars == <<data, mtime, cache, lock, sizesPc, job, now, trees, swaps, damage, crashes,
  published, raced>>
selectionVars == <<sidecar, selectionData, broken, last, others, cmd, phase, at, unread, lines,
  chosen, answer, steady, acted>>
textVars == <<text, wrote, pos, header, got, verdict>>

-----------------------------------------------------------------------------
(* Two processes restore one entry, or two entries of the same path a/b/doc,  *)
(* whose directories may be missing.                                          *)
C(entry, explicit, force, batch) ==
  [entry |-> entry, parents |-> <<"a", "b">>, name |-> "doc", explicit |-> explicit, inside |-> TRUE, force |-> force, batch |-> batch]
TheDirs == {"root", "elsewhere", "A", "B", "N"}
Whole == (<<"root", <<"a", 0>>>> :> "A") @@ (<<"A", <<"b", 0>>>> :> "B") @@ (<<"root", <<"e", 0>>>> :> "elsewhere")
TheTrees == {Whole, Restrict(Whole, DOMAIN Whole \ {<<"A", <<"b", 0>>>>}), (<<"B", <<"doc", 0>>>> :> Other) @@ Whole}
TheCalls ==
  {C("e1", FALSE, FALSE, FALSE), C("e1", FALSE, TRUE, FALSE), C("e1", TRUE, FALSE, FALSE), C("e2", FALSE, TRUE, TRUE),
   [C("e2", FALSE, FALSE, FALSE) EXCEPT !.inside = FALSE]}
ASSUME FilesConstants == FewFiles

-----------------------------------------------------------------------------
(* Two processes and two names.                                            *)
D == INSTANCE DirectorySizes WITH
  Procs <- {"p", "q"}, ByHandle <- {}, Names <- {"m", "n"}, MaxTime <- 2, MaxTrees <- 2, MaxSwaps <- 1,
  MaxFaults <- 1,
  pc <- sizesPc
ASSUME SizesConstants == D!SizesAssumption

-----------------------------------------------------------------------------
(* A name and the ID it gives when it is taken, in two roots; every kind of *)
(* command with little going on, and undo, which looks at the data late,   *)
(* with more.                                                              *)
Roots == <<"home", "usb">>
TheIds == {"a", "a.2"}
TheNames == [i \in TheIds |-> {"a", i}]
TheFits == [g \in {"a*"} |-> TheIds]
Ask(kind, sel) == [kind |-> kind, path |-> None, sel |-> sel]
Asked ==
  {Ask("restore", "a"), Ask("restore", "a*"), Ask("restoreAll", "a"), Ask("restoreAll", "a*"),
   Ask("purge", "a"), [kind |-> "purge", path |-> <<"usb", "a">>, sel |-> None],
   Ask("undo", None), Ask("empty", None)}
E == INSTANCE EntrySelection WITH
  Order <- Roots, Ids <- TheIds, Names <- TheIds, NamesOf <- TheNames, Fits <- TheFits,
  Commands <- Asked, MaxStamp <- 3, MaxOthers <- 1,
  data <- selectionData
U == INSTANCE EntrySelection WITH
  Order <- Roots, Ids <- TheIds, Names <- TheIds, NamesOf <- TheNames, Fits <- TheFits,
  Commands <- {Ask("undo", None)}, MaxStamp <- 3, MaxOthers <- 3,
  data <- selectionData
ASSUME SelectionConstants == E!SelectionAssumption /\ U!SelectionAssumption

-----------------------------------------------------------------------------
(* The text of a sidecar: every file name of up to three bytes, commands   *)
(* that look like fields, paths with escapes of all kinds, and every       *)
(* sequence of three lines.                                                *)
TheHex == [c \in {"%", ".", "/", " ", "=", "\n", "Path=", "X-Trashd-Compressed="} |->
            CASE c = "%" -> <<"2", "5">> [] c = "." -> <<"2", "e">> [] c = "/" -> <<"2", "f">>
              [] c = " " -> <<"2", "0">> [] c = "=" -> <<"3", "d">> [] c = "\n" -> <<"0", "a">>
              \* a name that contains the text of a key: its "=" is escaped, which one pair stands for
              [] c = "Path=" -> <<"3", "0">> [] c = "X-Trashd-Compressed=" -> <<"3", "a">>]
AsTheyAre == {".", "/", "a", "e", "f", "0", "2", "3", "5", "d"}
TheDates == {<<"0">>, <<"2">>}
SeqsUpTo(S, n) == UNION {[1..k -> S] : k \in 0..n}
NameBytes == {"a", ".", "%", " ", "\n", "Path="}
Paths == {<<"/", "a", "/">> \o v : v \in SeqsUpTo(NameBytes, 3) \ {<<".">>, <<".", ".">>}}
WrittenBy == {None, <<"a">>, <<"a", "\n", "X-Trashd-Compressed=", "a">>, <<"\n", "\n", "Path=", "a">>}
Written == [path : Paths, date : {<<"0">>}, command : WrittenBy, hash : {None, <<"e">>}]
Headed == <<"[Trash Info]", "\n">>
Crafted == {Headed \o <<"Path=">> \o v \o <<"\n", "DeletionDate=", "0", "\n">> :
              v \in SeqsUpTo({"%", "2", "e", ".", "/"}, 4) \cup {<<"%", "2", "e", ".">>, <<"%", "2", "f", ".", ".">>}}
Lines == {
  <<"\n">>, <<"Path=", "a", "\n">>, <<" ", "Path=", "e", " ", "\n">>, <<"DeletionDate=", "0", "\n">>,
  <<"DeletionDate=", "a", "\n">>, <<"X-Trashd-Hash=", "a", "\n">>, <<"X-Trashd-Hash=", "e", " ", "\n">>,
  <<"X-Trashd-Compressed=", "a", "\n">>, <<"X-Trashd-Compressed=", "e">>}
Found == Crafted \cup {FlattenSeq(s) : s \in SeqsUpTo(Lines, 1)} \cup {Headed \o FlattenSeq(s) : s \in SeqsUpTo(Lines, 3)}
T == INSTANCE SidecarText WITH
  Entries <- Written, Texts <- Found, Hex <- TheHex, Unreserved <- AsTheyAre, Dates <- TheDates

-----------------------------------------------------------------------------
SizesOff ==
  /\ data = Off /\ mtime = Off /\ cache = Off /\ lock = Off /\ sizesPc = Off /\ job = Off
  /\ now = Off /\ trees = Off /\ swaps = Off /\ damage = Off /\ crashes = Off /\ published = Off
  /\ raced = Off
SelectionOff ==
  /\ sidecar = Off /\ selectionData = Off /\ broken = Off /\ last = Off /\ others = Off
  /\ cmd = Off /\ phase = Off /\ at = Off /\ unread = Off /\ lines = Off /\ chosen = Off
  /\ answer = Off /\ steady = Off /\ acted = Off
TextOff ==
  /\ text = Off /\ wrote = Off /\ pos = Off /\ header = Off /\ got = Off /\ verdict = Off

Start ==
  /\ part \in {"place", "sizes", "selection", "undo", "text"}
  /\ Init /\ (part # "place" => tree = Whole /\ call = [p \in Procs |-> C("e1", FALSE, FALSE, FALSE)])
  /\ IF part = "sizes" THEN D!Init ELSE SizesOff
  /\ IF part \in {"selection", "undo"} THEN E!Init ELSE SelectionOff
  /\ IF part = "text" THEN T!Init ELSE TextOff

PlaceMoves == part = "place" /\ Next /\ UNCHANGED <<part, sizesVars, selectionVars, textVars>>
UndoMoves == part = "undo" /\ U!Next /\ UNCHANGED <<part, vars, sizesVars, textVars>>
SizesMoves == part = "sizes" /\ D!Next /\ UNCHANGED <<part, vars, selectionVars, textVars>>
SelectionMoves == part = "selection" /\ E!Next /\ UNCHANGED <<part, vars, sizesVars, textVars>>
TextMoves == part = "text" /\ T!Next /\ UNCHANGED <<part, vars, sizesVars, selectionVars>>
Move == PlaceMoves \/ UndoMoves \/ SizesMoves \/ SelectionMoves \/ TextMoves
Behaviour == Start /\ [][Move]_<<part, vars, sizesVars, selectionVars, textVars>>

-----------------------------------------------------------------------------
(* Properties.                                                             *)

\* The files of a root tell the truth: what a sidecar says is what was written or what the file
\* says first, a row that readers accept gives the size of the directory it names, and a command
\* acts on the entry its listing showed, denies none that was there, and in a batch restores both of
\* two entries of one path.
HonestRecords ==
  /\ part = "place" => TypeOK /\ BatchKeepsBoth
  /\ part = "sizes" => D!TypeOK /\ D!HonestRows
  /\ part = "selection" => E!TypeOK
  /\ part = "undo" => U!TypeOK
  /\ part \in {"selection", "undo"} => E!ActsOnItsLine /\ E!NotFoundHonest
  /\ part = "text" => T!TypeOK /\ T!RoundTrip /\ T!NeverClimbs /\ T!FirstKept

\* A rebuilt directorysizes is complete, and a command chooses what its selector says: one that
\* fits two entries acts on neither, --all on each copy, and undo on the newest entry.
ChoosesRight ==
  /\ [][part = "sizes" => D!CompleteRows]_sizesVars
  /\ [][(part \in {"selection", "undo"}) => E!Unambiguous /\ E!EveryCopyChosen /\ E!UndoesNewest]_selectionVars
=============================================================================
