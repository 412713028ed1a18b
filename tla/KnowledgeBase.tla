--------------------------- MODULE KnowledgeBase ---------------------------
(***************************************************************************)
(* The pgvector knowledge base (rag/ingest.py, rag/store.py): ingestion    *)
(* runs, several at a time and each over a list of files, and the rows a   *)
(* search may return.  The connection is in autocommit mode, so the row of *)
(* a document and each row of a chunk are transactions of their own: a run *)
(* that raises in between leaves what it has inserted, and nothing is ever *)
(* updated or deleted.                                                     *)
(***************************************************************************)
EXTENDS Integers, Sequences, FiniteSets

CONSTANTS Runs,      \* executions of `python -m k8s_sre_agent.rag.ingest`
          Files,     \* Files[r]: the paths given to run r, in order
          TenantOf,  \* TenantOf[r]: its --tenant
          Bypasses,  \* Bypasses[r]: row-level security does not bind its role
          Titles,    \* a title stands for the (title, source) of a document
          Tenants,
          Editions,  \* bound of the model: the last edition of a file
          ChunksOf   \* ChunksOf[t][e]: length of chunk_document(edition e of t)

ASSUME KnowledgeAssumption ==
    /\ IsFiniteSet(Runs)
    /\ Files \in [Runs -> Seq(Titles)]
    /\ TenantOf \in [Runs -> Tenants]
    /\ Bypasses \in [Runs -> BOOLEAN]
    /\ Editions \in Nat \ {0}
    /\ ChunksOf \in [Titles -> [1..Editions -> Nat]]

VARIABLES edition,   \* the edition of each file that is on disk
          docs,      \* table documents; a row's id is its position
          chunks,    \* table chunks
          run,       \* where each run is
          reported,  \* history: documents whose "ingested" line was printed
          found      \* history: found[r][t] = edition of t when r started

vars == <<edition, docs, chunks, run, reported, found>>

NoRun == [pc |-> "idle", at |-> 1, edition |-> 1, doc |-> 0, next |-> 0]

Locations == {"idle", "read", "document", "chunks", "done", "failed"}

\* Number of chunks of the text that document d was made from.
Total(d) == ChunksOf[docs[d].title][docs[d].edition]

TypeOK ==
    /\ edition \in [Titles -> 1..Editions]
    /\ docs \in Seq([title : Titles, tenant : Tenants, edition : 1..Editions])
    /\ chunks \subseteq [doc : 1..Len(docs), ordinal : Nat, tenant : Tenants]
    /\ \A c \in chunks : c.ordinal < Total(c.doc)
    /\ run \in [Runs -> [pc : Locations, at : Nat, edition : 1..Editions,
                         doc : 0..Len(docs), next : Nat]]
    /\ reported \subseteq 1..Len(docs)
    /\ found \in [Runs -> [Titles -> 1..Editions]]

Init ==
    /\ edition = [t \in Titles |-> 1]
    /\ docs = <<>>
    /\ chunks = {}
    /\ run = [r \in Runs |-> NoRun]
    /\ reported = {}
    /\ found = [r \in Runs |-> [t \in Titles |-> 1]]

-----------------------------------------------------------------------------

\* Somebody commits a new edition of a file.
Edit(t) ==
    /\ edition[t] < Editions
    /\ edition' = [edition EXCEPT ![t] = @ + 1]
    /\ UNCHANGED <<docs, chunks, run, reported, found>>

\* The schedule, a webhook or a person starts a run.
Start(r) ==
    /\ run[r].pc = "idle"
    /\ run' = [run EXCEPT ![r].pc = IF Files[r] = <<>> THEN "done" ELSE "read"]
    /\ found' = [found EXCEPT ![r] = edition]
    /\ UNCHANGED <<edition, docs, chunks, reported>>

\* The file a run is at.
File(r) == Files[r][run[r].at]

\* The loop of main() goes on to the next path, or ends.
NextFile(r) ==
    \/ /\ run[r].at < Len(Files[r])
       /\ run' = [run EXCEPT ![r].pc = "read", ![r].at = @ + 1, ![r].next = 0]
    \/ /\ run[r].at >= Len(Files[r])
       /\ run' = [run EXCEPT ![r].pc = "done", ![r].next = 0]

\* Mutant: a document that is already there is not ingested again.
SkipKnown(r) ==
    /\ run[r].pc = "read"
    /\ IF ChunksOf[File(r)][edition[File(r)]] = 0
          \/ \E d \in reported : docs[d].title = File(r) /\ docs[d].tenant = TenantOf[r]
         THEN NextFile(r)
         ELSE run' = [run EXCEPT ![r].pc = "document", ![r].edition = edition[File(r)]]
    /\ UNCHANGED <<edition, docs, chunks, reported, found>>

\* ingest_text up to the store: the text is read, chunked and embedded; a text
\* without chunks is passed over.
ReadFile(r) ==
    /\ run[r].pc = "read"
    /\ IF ChunksOf[File(r)][edition[File(r)]] = 0
         THEN NextFile(r)
         ELSE run' = [run EXCEPT ![r].pc = "document", ![r].edition = edition[File(r)]]
    /\ UNCHANGED <<edition, docs, chunks, reported, found>>

\* upsert_chunks: INSERT INTO documents ... RETURNING id.
InsertDocument(r) ==
    /\ run[r].pc = "document"
    /\ docs' = Append(docs, [title |-> File(r), tenant |-> TenantOf[r],
                             edition |-> run[r].edition])
    /\ run' = [run EXCEPT ![r].pc = "chunks", ![r].doc = Len(docs')]
    /\ UNCHANGED <<edition, chunks, reported, found>>

\* Mutants: the id of the newest document instead of the returned one, and
\* ordinals that start at 1.
InsertIntoNewest(r) ==
    /\ run[r].pc = "chunks" /\ run[r].next < Total(run[r].doc)
    /\ Bypasses[r]
    /\ chunks' = chunks \cup {[doc |-> Len(docs), ordinal |-> run[r].next,
                               tenant |-> TenantOf[r]]}
    /\ run' = [run EXCEPT ![r].next = @ + 1]
    /\ UNCHANGED <<edition, docs, reported, found>>
InsertFromOne(r) ==
    /\ run[r].pc = "chunks" /\ run[r].next < Total(run[r].doc)
    /\ Bypasses[r]
    /\ chunks' = chunks \cup {[doc |-> run[r].doc, ordinal |-> run[r].next + 1,
                               tenant |-> TenantOf[r]]}
    /\ run' = [run EXCEPT ![r].next = @ + 1]
    /\ UNCHANGED <<edition, docs, reported, found>>

\* upsert_chunks: the next INSERT INTO chunks.  The policy of the table is forced
\* and has no WITH CHECK, so it also decides on inserts; the connection never
\* sets app.tenants, so it refuses each insert of a role that it binds.
InsertChunk(r) ==
    /\ run[r].pc = "chunks" /\ run[r].next < Total(run[r].doc)
    /\ Bypasses[r]
    /\ chunks' = chunks \cup {[doc |-> run[r].doc, ordinal |-> run[r].next,
                               tenant |-> TenantOf[r]]}
    /\ run' = [run EXCEPT ![r].next = @ + 1]
    /\ UNCHANGED <<edition, docs, reported, found>>

\* ingest_text returns and the line "ingested <file>: <n> chunks" is printed.
Report(r) ==
    /\ run[r].pc = "chunks" /\ run[r].next = Total(run[r].doc)
    /\ reported' = reported \cup {run[r].doc}
    /\ NextFile(r)
    /\ UNCHANGED <<edition, docs, chunks, found>>

\* Mutant: main() catches the exception of one file and goes on to the next.
FailOne(r) ==
    /\ run[r].pc \in {"read", "document", "chunks"}
    /\ NextFile(r)
    /\ UNCHANGED <<edition, docs, chunks, reported, found>>

\* The file, the embedding service or the database raises (also after a commit
\* whose answer was lost): main() ends with a traceback, and the remaining files
\* are not ingested.
Fail(r) ==
    /\ run[r].pc \in {"read", "document", "chunks"}
    /\ run' = [run EXCEPT ![r].pc = "failed"]
    /\ UNCHANGED <<edition, docs, chunks, reported, found>>

Next ==
    \/ \E t \in Titles : Edit(t)
    \/ \E r \in Runs :
          \/ Start(r)
          \/ ReadFile(r)
          \/ InsertDocument(r)
          \/ InsertChunk(r)
          \/ Report(r)
          \/ Fail(r)

Spec == Init /\ [][Next]_vars

\* What the row policy leaves of the chunks to a role that it binds (the deployment
\* guide has searches connect as one) when the session has set app.tenants
\* to the caller's (retrieve.search passes ["default"] for none).
Visible(callers) == {c \in chunks : c.tenant \in callers}

\* store.search: chunks joined with their documents, which no policy guards; any
\* of them may rank among those returned.
Hits(callers) ==
    {[document |-> docs[c.doc], ordinal |-> c.ordinal] : c \in Visible(callers)}

-----------------------------------------------------------------------------

OrdinalsOf(d) == {c.ordinal : c \in {x \in chunks : x.doc = d}}

\* A document the command has reported is there as a whole, every chunk under its
\* own ordinal, although other runs insert documents and chunks in between and
\* nothing but the returned id ties a chunk to its document.
ReportedWhole ==
    \A d \in reported : OrdinalsOf(d) = 0..(Total(d) - 1)

\* A search shows no text of a document of another tenant.  The policy looks at
\* the copy of the tenant in the chunk, and the title and url shown come from
\* the document: the two must never part.
ScopedSearch ==
    \A callers \in SUBSET Tenants : \A h \in Hits(callers) : h.document.tenant \in callers

\* What is left half-ingested is accounted for by runs that are under way or have
\* failed: a failure costs at most the document it struck.
Partial == {d \in 1..Len(docs) : OrdinalsOf(d) # 0..(Total(d) - 1)}

PartialsAccounted ==
    Cardinality(Partial) <= Cardinality({r \in Runs : run[r].pc \in {"chunks", "failed"}})

\* A run that ends without an error has ingested, of each of its files, a text at
\* least as new as the one it found when it started.
FreshWhenDone ==
    \A r \in Runs : run[r].pc = "done" =>
        \A i \in 1..Len(Files[r]) :
            LET t == Files[r][i]
            IN  \E e \in found[r][t]..Editions :
                   \/ ChunksOf[t][e] = 0
                   \/ \E d \in reported :
                         docs[d] = [title |-> t, tenant |-> TenantOf[r], edition |-> e]

=============================================================================
