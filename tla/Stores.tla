-------------------------------- MODULE Stores -------------------------------
(***************************************************************************)
(* The two directories an agent may name files of - the Image Store, read    *)
(* and written, and the ISO Store, only read - and the download catalog.     *)
(* A name is a word; what the checks tell apart in it is the sequence of its  *)
(* characters, "a" standing for any letter or digit.  A store is a directory *)
(* that may be missing, and what is at each name in it.  An option is a set   *)
(* of at most one value, and so is the result of what can be refused.        *)
(***************************************************************************)
EXTENDS Sequences, Integers

AbsolutePaths == {"/abs", "/images", "/isos", "/spool", "/share", "/dir", "/no/dir",
                  "/file/name", "/sealed", "/list.json"}
\* What is in the words that are not plain letters and digits.
CharsOf(word) ==
    CASE word = "" -> <<>>
      [] word = " " -> <<" ">>
      [] word \in {".", ".."} -> <<".", ".">>
      [] word = "nul" -> <<"a", "NUL">>
      [] word \in AbsolutePaths -> <<"/", "a">>
      [] word = "a/b" -> <<"a", "/", "a">>
      [] word = "a b" -> <<"a", " ", "a">>
      [] word = "a,b" -> <<"a", ",", "a">>
      [] word = "/a,b" -> <<"/", "a", ",", "a">>
      [] word = "-a" -> <<"-", "a">>
      [] word = "a+b" -> <<"a", "+", "a">>
      [] word = "line\n" -> <<"a", "CTRL">>
      [] OTHER -> <<"a">>
CharSet(word) == {CharsOf(word)[i] : i \in DOMAIN CharsOf(word)}

\* A leading letter or digit, then letters, digits and the punctuation given.
Token(word, punctuation) ==
    /\ word # ""
    /\ CharsOf(word)[1] = "a"
    /\ CharSet(word) \subseteq {"a"} \cup punctuation

IsValidStoreName(name) == Token(name, {".", "_", "-"})

\* Not blank, no NUL, not absolute, not . or .., no separator, of the charset.
AssertValidStoreName(name) ==
    /\ CharSet(name) \ {" "} # {}
    /\ "NUL" \notin CharSet(name)
    /\ CharsOf(name)[1] # "/"
    /\ name \notin {".", ".."}
    /\ CharSet(name) \cap {"/", "\\"} = {}
    /\ IsValidStoreName(name)

Kinds == {"file", "part", "dir", "link_inside", "link_outside", "dangling"}
Store(dir, there, entries) == [dir |-> dir, there |-> there, entries |-> entries]
Exists(store, name) == name \in DOMAIN store.entries
Path(store, name) == Append(store.dir, name)

\* Mutation of ResolveInStore: a link that leads out is followed.
ResolveInStoreThroughLinks(name, store) ==
    IF /\ AssertValidStoreName(name)
       /\ store.there
       /\ Exists(store, name) => store.entries[name] # "dangling"
    THEN {Path(store, name)} ELSE {}

\* A name that is not there yet resolves too; a link that dangles or leads out
\* of the store does not.
ResolveInStore(name, store) ==
    IF /\ AssertValidStoreName(name)
       /\ store.there
       /\ Exists(store, name) =>
              store.entries[name] \notin {"dangling", "link_outside"}
    THEN {Path(store, name)} ELSE {}

\* Regular files only - a partial download is one.
ListStoreFiles(store) ==
    IF store.there
    THEN {{n \in DOMAIN store.entries : store.entries[n] \in {"file", "part"}}} ELSE {}

ImageFormat == {"qcow2", "raw"}
ResolveImagePath(name, store) == ResolveInStore(name, store)
ResolveIsoPath(name, store) == ResolveInStore(name, store)
ListImages(store) == ListStoreFiles(store)
ListIsos(store) == ListStoreFiles(store)

\* What image_store checks before it hands over to qemu-img: the size, the
\* name, and that nothing has it.
CreateImageArgs(request, store, maxDiskGb) ==
    IF /\ request.sizeGb >= 1
       /\ request.sizeGb <= maxDiskGb
       /\ ResolveImagePath(request.name, store) # {}
       /\ ~Exists(store, request.name)
    THEN ResolveImagePath(request.name, store) ELSE {}

CatalogEntry(id, name, filename, mirrors) ==
    [id |-> id, name |-> name, filename |-> filename, mirrors |-> mirrors]
\* An URL is of a scheme and may have a blank or a control character in it.
IsMirror(url) == url.scheme \in {"http", "https"} /\ ~url.blanks
\* Malformed JSON is the empty option.
ParseCatalog(json) ==
    {entries \in json :
        /\ entries # <<>>
        /\ \A i \in DOMAIN entries :
            /\ Token(entries[i].id, {".", "_", "-"})
            /\ \A j \in DOMAIN entries : entries[i].id = entries[j].id => i = j
            /\ CharSet(entries[i].name) \ {" "} # {}
            /\ AssertValidStoreName(entries[i].filename)
            /\ entries[i].mirrors # {}
            /\ \A url \in entries[i].mirrors : IsMirror(url)}
\* No path: the built-in list.  A file that cannot be read is malformed JSON.
LoadCatalog(path, builtin, file) == IF path = "" THEN ParseCatalog(builtin) ELSE ParseCatalog(file)
FindEntry(catalog, id) == {e \in {catalog[i] : i \in DOMAIN catalog} : e.id = id}
=============================================================================
