------------------------------- MODULE Loader --------------------------------
(***************************************************************************)
(* Loading the files of a suite: newTestSuite and loadManifest, the files  *)
(* that tests and cases refer to with "@", and the template loader         *)
(* (pkg/lib/template) that renders each of them.                           *)
(*                                                                         *)
(* A file is first a template, which may load more files with file_render  *)
(* while it is executed, and then JSON, whose items refer to other tests   *)
(* or, in a case, to request and response files.  The responses to collect *)
(* may be in a file whose entries are files in turn.  What is being loaded *)
(* is a stack of frames.  Rendering sets the delimiters of the loader in   *)
(* hand: file_render goes on with the loader of the file that calls it,    *)
(* tests, requests and responses get a copy.                               *)
(*                                                                         *)
(* What a template does may depend on the host that replace_host puts into *)
(* its URLs; on everything else, such as the datastore, it does not here.  *)
(* A location is the sequence of names from the root of the file system; a *)
(* directory is one, too.  Files from the web are left out.                *)
(***************************************************************************)
EXTENDS Integers, SequencesExt, TLC

CONSTANTS
  Delims,         \* pairs of template delimiters
  DefaultDelims,  \* the zero Delimiters, which text/template takes as {{ }}
  NoDelims,       \* a file without "template-delims"
  Tree,           \* the files: location -> what it loads
  Manifest,       \* the location of the manifest
  Headers,        \* the delimiters of each file: the combinations under study
  NoHost,         \* Loader.HTTPServerHost where it is not set
  ReplaceHost,    \* --replace-host, which may be missing, too
  StartDirs       \* working directories before the suite runs

Up == ".."

(* A path "a/b", "./a/b" or "/a/b". *)
Path == [base: {"plain", "dot", "abs"}, steps: Seq(STRING)]

Hosts == {NoHost, ReplaceHost}

(* includes: the calls of file_render in it; items: its "@" references, in a file
   of collect responses all of kind "data". *)
Item == [kind: {"test", "collect", "data"}, path: Path]
File == [includes: [Hosts -> Seq(Path)], items: [Hosts -> Seq(Item)]]

(* written: the delimiters that the actions of the file are written with. *)
Header == [declares: Delims \cup {NoDelims}, written: Delims]

Files == DOMAIN Tree

ASSUME DelimsAssumption == DefaultDelims \in Delims /\ NoDelims \notin Delims
ASSUME FilesAssumption  == Manifest \in Files /\ \A loc \in Files : Tree[loc] \in File
ASSUME HeadersAssumption == \A h \in Headers : h \in [Files -> Header]

VARIABLES
  header,  \* the delimiters declared in, and used by, each file
  cwd,     \* the working directory
  pc,      \* "load", "run", "done" or "failed"
  pass,    \* how often the manifest has been begun
  host,    \* Suite.httpServerHost
  frames   \* the files in hand, the innermost one last

vars == <<header, cwd, pc, pass, host, frames>>

(***************************************************************************)
(* Paths                                                                   *)
(***************************************************************************)

Dir(loc) == Front(loc)

(* filepath.Join, which cleans the path. *)
Join(dir, steps) ==
  FoldLeft(LAMBDA at, s : IF s # Up THEN Append(at, s)
                          ELSE IF at = << >> THEN at ELSE Front(at), dir, steps)

LocalPath(path, rootDir) ==
  CASE path.base = "dot" -> Join(cwd, path.steps)
    [] path.base = "abs" -> Join(<< >>, path.steps)
    [] path.base = "plain" -> Join(rootDir, path.steps)

(***************************************************************************)
(* Frames                                                                  *)
(***************************************************************************)

Top  == frames[Len(frames)]
This == Tree[Top.file]

(* The frame whose loader renders frame i. *)
Owner(i) == CHOOSE j \in 1 .. i : /\ frames[j].kind # "render"
                                  /\ \A h \in j + 1 .. i : frames[h].kind = "render"

(* The frame of the test whose case the items of frame i belong to. *)
TestOf(i) == IF frames[i].kind = "collect" THEN i - 1 ELSE i

LoaderOf(i) == [delims |-> frames[Owner(i)].delims, host |-> frames[Owner(i)].host]

(* Render: a declaration in the file replaces the loader's delimiters. *)
Rendered(loc, inherited) ==
  IF header[loc].declares # NoDelims THEN header[loc].declares ELSE inherited

(* used: the delimiters its template is parsed with; delims: those of its
   loader, if it has one of its own; given: what that loader started with. *)
Frame(kind, loc, dir, loader, plain) ==
  [kind |-> kind, file |-> loc, dir |-> dir, part |-> "template", next |-> 1,
   used |-> Rendered(loc, loader.delims), delims |-> Rendered(loc, loader.delims),
   given |-> loader.delims, host |-> loader.host, plain |-> plain]

Advance(fr) == [fr EXCEPT ![Len(fr)].next = @ + 1]

(* text/template sees the actions of a file only if they are written with the
   delimiters in force. *)
Calls(frame) == IF frame.used = header[frame.file].written
                THEN Tree[frame.file].includes[frame.host] ELSE << >>

Items == This.items[Top.host]

AtCall == frames # << >> /\ Top.part = "template" /\ Top.next <= Len(Calls(Top))
AtEnd  == frames # << >> /\ Top.part = "template" /\ Top.next > Len(Calls(Top))
AtItem == frames # << >> /\ Top.part = "items" /\ Top.next <= Len(Items)

Exists(path) == LocalPath(path, Top.dir) \in Files

(***************************************************************************)
(* Steps                                                                   *)
(***************************************************************************)

ManifestDir == Dir(Manifest)

Init ==
  /\ header \in Headers
  /\ cwd \in StartDirs
  /\ pc = "load"
  /\ pass = 0
  /\ host = NoHost
  /\ frames = << >>

NewLoader == [delims |-> DefaultDelims, host |-> host]

(* loadManifest, with a new loader; newTestSuite calls it twice. *)
LoadManifest ==
  /\ pc = "load" /\ frames = << >> /\ pass < 2
  /\ pass' = pass + 1
  /\ frames' = <<Frame("manifest", Manifest, ManifestDir, NewLoader, TRUE)>>
  /\ UNCHANGED <<header, cwd, pc, host>>

(* Mutant: the rendered file keeps the directory of the caller. *)
RenderDir_Caller(path) == Top.dir

RenderDir(path) == Dir(Join(Top.dir, path.steps))

(* loadFileAndRender: the same loader, whose delimiters may change by it. *)
FileRender ==
  /\ AtCall
  /\ LET path == Calls(Top)[Top.next]
         own  == Owner(Len(frames))
         f    == Frame("render", LocalPath(path, Top.dir), RenderDir(path),
                       LoaderOf(Len(frames)), Top.plain /\ path.base = "plain")
     IN  /\ Exists(path)
         /\ frames' = Append([Advance(frames) EXCEPT ![own].delims = f.used], f)
  /\ UNCHANGED <<header, cwd, pc, pass, host>>

(* The template of a file that was rendered by another is done, or that of a
   request or response. *)
ReturnText ==
  /\ AtEnd /\ Top.kind \in {"render", "data"}
  /\ frames' = Front(frames)
  /\ UNCHANGED <<header, cwd, pc, pass, host>>

Parsed == [frames EXCEPT ![Len(frames)].part = "items", ![Len(frames)].next = 1]

(* The rendered file is valid JSON; the manifest of the first pass is thrown
   away, and the second one gets the host of the command line. *)
ParseFirstManifest ==
  /\ AtEnd /\ Top.kind = "manifest" /\ pass = 1
  /\ frames' = << >>
  /\ host' = ReplaceHost
  /\ UNCHANGED <<header, cwd, pc, pass>>

(* Suite.run enters the directory of the manifest. *)
ParseManifest ==
  /\ AtEnd /\ Top.kind = "manifest" /\ pass = 2
  /\ frames' = Parsed
  /\ pc' = "run"
  /\ cwd' = ManifestDir
  /\ UNCHANGED <<header, pass, host>>

(* A test, or a file of collect responses. *)
ParseItems ==
  /\ AtEnd /\ Top.kind \in {"test", "collect"}
  /\ frames' = Parsed
  /\ UNCHANGED <<header, cwd, pc, pass, host>>

(* Mutants: the delimiters, or the host, are not handed down; the loader is handed
   down as a pointer. *)
buildLoader_NewDelims(root) == [delims |-> DefaultDelims, host |-> host]
buildLoader_NoHost(root) == [delims |-> root.delims, host |-> NoHost]
Enter_SharedLoader(fr, f) == Append([fr EXCEPT ![Len(fr)].delims = f.delims], f)

(* buildLoader copies the delimiters of the loader of the file that refers to
   the test. *)
buildLoader(root) == [delims |-> root.delims, host |-> host]

(* The new frame has a loader of its own. *)
Enter(fr, f) == Append(fr, f)

(* parseAndRunTest with a path: its directory is that of testFilePath, which
   is joined from the path whatever its form. *)
TestRef ==
  /\ AtItem /\ Top.kind # "collect" /\ Items[Top.next].kind = "test"
  /\ LET path == Items[Top.next].path
     IN  /\ Exists(path)
         /\ frames' = Enter(Advance(frames),
                            Frame("test", LocalPath(path, Top.dir), Dir(Join(Top.dir, path.steps)),
                                  buildLoader(LoaderOf(Len(frames))),
                                  Top.plain /\ path.base = "plain"))
  /\ UNCHANGED <<header, cwd, pc, pass, host>>

(* LoadManifestDataAsObject with a path, for a case or an entry of its file of
   collect responses: the file is rendered in the directory of the test, with the
   test's loader passed by value.  The case may load it again when it polls. *)
DataRef ==
  /\ AtItem
  /\ LET path == Items[Top.next].path
         kind == IF Top.kind = "collect" THEN "data" ELSE Items[Top.next].kind
     IN  /\ kind # "test"
         /\ Exists(path)
         /\ frames' = Enter(frames, Frame(kind, LocalPath(path, Top.dir), Top.dir,
                                          LoaderOf(TestOf(Len(frames))), FALSE))
  /\ UNCHANGED <<header, cwd, pc, pass, host>>

(* The file is not needed any more, or not at all: a response matched before, or
   the case has failed before, and this is forgiven. *)
Proceed ==
  /\ AtItem /\ (Top.kind = "collect" \/ Items[Top.next].kind # "test")
  /\ frames' = Advance(frames)
  /\ UNCHANGED <<header, cwd, pc, pass, host>>

ReturnItems ==
  /\ frames # << >> /\ Top.part = "items" /\ Top.next > Len(Items)
  /\ frames' = Front(frames)
  /\ pc' = IF Top.kind = "manifest" THEN "done" ELSE pc
  /\ UNCHANGED <<header, cwd, pass, host>>

(* A file of a case does not exist, its template fails, or it is no JSON; the case
   has continue_on_failure or reverse_test_result, and the test goes on. *)
Forgive ==
  /\ \E i \in 1 .. Len(frames) - 1 :
       /\ frames[i].kind \in {"manifest", "test"}
       /\ frames[i + 1].kind \in {"collect", "data"}
       /\ frames' = SubSeq(frames, 1, i)
  /\ UNCHANGED <<header, cwd, pc, pass, host>>

(* Anything else that fails: the error or the failed test ends the suite. *)
Fail ==
  /\ pc \in {"load", "run"}
  /\ frames' = << >>
  /\ pc' = "failed"
  /\ UNCHANGED <<header, cwd, pass, host>>

Step ==
  \/ LoadManifest \/ FileRender \/ ReturnText
  \/ ParseFirstManifest \/ ParseManifest \/ ParseItems
  \/ TestRef \/ DataRef \/ Proceed \/ ReturnItems \/ Forgive \/ Fail

Next == Step \/ (pc \in {"done", "failed"} /\ UNCHANGED vars)

Spec == Init /\ [][Next]_vars

(***************************************************************************)
(* Properties                                                              *)
(***************************************************************************)

(* Every variable of the loader keeps its type. *)
TypeOK ==
  /\ header \in Headers
  /\ pc \in {"load", "run", "done", "failed"}
  /\ pass \in 0 .. 2
  /\ host \in Hosts
  /\ \A i \in DOMAIN frames :
       /\ frames[i].kind \in {"manifest", "render", "test", "collect", "data"}
       /\ frames[i].file \in Files
       /\ {frames[i].used, frames[i].delims, frames[i].given} \subseteq Delims
       /\ frames[i].kind = "manifest" <=> i = 1

(* The delimiters that frame i is to have: its own, or those of the innermost file
   around it that has some.  README.md:540 says that a response inherits them, but
   what a file of collect responses declares is for itself and what it renders, not
   for its entries. *)
Documented(i) ==
  LET own == {j \in 1 .. i : /\ header[frames[j].file].declares # NoDelims
                             /\ frames[j].kind = "collect" => Owner(i) = j}
  IN  IF own = {} THEN DefaultDelims
      ELSE header[frames[CHOOSE j \in own : \A h \in own : h <= j].file].declares

(* Each file in hand was parsed with the delimiters that its loader has now: what
   was rendered before it, or is being rendered inside it, declares no others.
   The loader of a file of collect responses is gone once that is rendered. *)
NoOverride ==
  \A i \in DOMAIN frames :
    \/ frames[i].kind = "collect" /\ frames[i].part = "items"
    \/ frames[Owner(i)].delims = frames[i].used

(* README.md:540: tests, requests, responses and rendered files inherit the
   delimiters of the file around them unless they have their own, as long as no
   file that was rendered by one of these has overridden them. *)
DelimsInherited ==
  NoOverride => \A i \in DOMAIN frames : frames[i].used = Documented(i)

(* template_loader.go:90, api_testcase.go:200, :600: the delimiters that a test, a
   request or a response sets are gone when it is done: the test that refers to it,
   itself or through a file of collect responses, goes on with the loader it had,
   and so does the next test of the suite. *)
LeakConfined ==
  \A i \in 2 .. Len(frames) :
    frames[i].kind # "render" => frames[TestOf(i - 1)].delims = frames[i].given

(* README.md:1783: a template loads files relative to the directory of the
   file it is in; so it is for plain relative paths, as long as the file is
   no request or response. *)
DirIsWhereItLies ==
  \A i \in DOMAIN frames : frames[i].plain => frames[i].dir = Dir(frames[i].file)

(* What the template and the JSON of a file refer to, with the replaced host. *)
References(loc) ==
  Range(Tree[loc].includes[ReplaceHost]) \cup {r.path : r \in Range(Tree[loc].items[ReplaceHost])}

(* api_testsuite.go:142, :276, :480: the first pass over the manifest knows no
   host; the manifest that is run, and every test, request, response and rendered
   file that is loaded for it, is rendered with the host of the command line, so
   that no file is loaded in the run to which that host does not lead. *)
HostReplaced ==
  /\ \A i \in DOMAIN frames : frames[i].host = IF pass = 1 THEN NoHost ELSE ReplaceHost
  /\ pc = "run" => \A i \in 2 .. Len(frames) :
       \E path \in References(frames[i - 1].file) :
         frames[i].file = LocalPath(path, frames[i - 1].dir)
=============================================================================
