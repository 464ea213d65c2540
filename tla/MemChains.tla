------------------------------ MODULE MemChains ------------------------------
(***************************************************************************)
(* lib_mem.c, lat_dram_page.c and measure() of cache.c: the chains of      *)
(* pointers that the latency programs walk.  A chain is a function from    *)
(* the offset of a word to the offset it points at; a word that holds no   *)
(* pointer is not in its domain.  Offsets count from state->base.          *)
(*                                                                         *)
(* A setup m holds what the caller of an initialize function fills in of   *)
(* struct mem_state: len, maxlen, line and pagesize, with the order of the *)
(* pages, a function from 0 .. nmpages - 1 to the offsets of the pages.    *)
(* Ptr is the size of a pointer.                                           *)
(***************************************************************************)
EXTENDS Naturals, Functions

CONSTANT Ptr

ASSUME PtrAssumption == Ptr \in Nat \ {0}

Ceiling(a, b) == (a + b - 1) \div b
Least(a, b) == IF a < b THEN a ELSE b

npages(m) == Ceiling(m.len, m.pagesize)
nwords(m) == m.line \div Ptr
nlines(m) == m.pagesize \div m.line
npointers(m) == m.len \div m.line

\* The chain a set of pairs <<word, target>> makes, one for each word.
ChainOf(links) ==
    [a \in {l[1] : l \in links} |-> (CHOOSE l \in links : l[1] = a)[2]]

\* The chain with some of its pointers stored anew.
Overwritten(chain, pointers) ==
    [a \in DOMAIN pointers \cup DOMAIN chain |->
        IF a \in DOMAIN pointers THEN pointers[a] ELSE chain[a]]

\* The shuffle of permutation() can produce every order of the pages.
permutation(max, scale) ==
    {[i \in 0 .. max - 1 |-> f[i] * scale] :
        f \in Bijection(0 .. max - 1, 0 .. max - 1)}

\* Mutant of base_initialize: room for one page more than maxlen only.
base_initializeOnePage(m, misaligned) ==
    [size |-> m.maxlen,
     base |-> IF misaligned = 0 THEN 0 ELSE m.pagesize - misaligned]

\* The buffer, and where in it the first page starts when malloc returns an
\* address `misaligned' bytes after a page boundary.
base_initialize(m, misaligned) ==
    [size |-> m.maxlen + 2 * m.pagesize,
     base |-> IF misaligned = 0 THEN 0 ELSE m.pagesize - misaligned]

\* 1 << nbits: the greatest power of two up to max.
Span[max \in Nat] == IF max <= 1 THEN 1 ELSE 2 * Span[max \div 2]

\* The low nbits bits of i in reverse order, where span is 1 << nbits.
Reversed[span \in Nat] ==
    [i \in Nat |-> IF span <= 1 THEN 0
                   ELSE (i % 2) * (span \div 2) + Reversed[span \div 2][i \div 2]]

\* Mutant of words_initialize: the bits are not reversed.
words_initializeInOrder(max, scale) == [i \in 0 .. max - 1 |-> i * scale]

\* The order in which the words of a line, or the lines of a page, are used.
words_initialize(max, scale) ==
    LET span == Span[max] IN [i \in 0 .. max - 1 |-> Reversed[span][i] * scale]

-----------------------------------------------------------------------------
\* One pointer per stride, in order.
stride_initialize(m) ==
    LET places == {k * m.line : k \in 0 .. Ceiling(m.len, m.line) - 1}
    IN  ChainOf({<<a, IF a + m.line \in places THEN a + m.line ELSE 0>> :
                    a \in places})

\* Mutant of thrashPages: the last page leads back to the line it came from.
thrashPagesSameLine(m) ==
    LET last == npages(m) - 1
        words == words_initialize(nlines(m), m.line)
        Place(i, j) == m.pages[i] + words[(i + j) % nlines(m)]
        Next(i, j) == IF i < last THEN Place(i + 1, j) ELSE Place(0, j)
    IN  ChainOf({<<Place(s[1], s[2]), Next(s[1], s[2])>> :
                    s \in (0 .. last) \X (0 .. nlines(m) - 1)})

\* Mutant of thrashPages: a page is finished before the next.
thrashPagesInPage(m) ==
    LET last == npages(m) - 1
        words == words_initialize(nlines(m), m.line)
        Place(i, j) == m.pages[i] + words[j]
        Next(i, j) == IF j < nlines(m) - 1 THEN Place(i, j + 1)
                      ELSE Place((i + 1) % (last + 1), 0)
    IN  ChainOf({<<Place(s[1], s[2]), Next(s[1], s[2])>> :
                    s \in (0 .. last) \X (0 .. nlines(m) - 1)})

\* Whole pages: each step goes to another page and to the next line.
thrashPages(m) ==
    LET last == npages(m) - 1
        words == words_initialize(nlines(m), m.line)
        Place(i, j) == m.pages[i] + words[(i + j) % nlines(m)]
        Next(i, j) == IF i < last THEN Place(i + 1, j) ELSE Place(0, j + 1)
    IN  ChainOf({<<Place(s[1], s[2]), Next(s[1], s[2])>> :
                    s \in (0 .. last) \X (0 .. nlines(m) - 1)})

\* A partial page: the lines in the order of their reversed numbers.  Of two
\* pointers stored in one word the later stays.
thrashWords(m) ==
    LET last == npointers(m) - 1
        words == words_initialize(npointers(m), m.line)
        Stored(i) == <<words[i], IF i = last THEN 0 ELSE words[i + 1]>>
    IN  ChainOf({Stored(i) : i \in {k \in 0 .. last :
                    \A l \in k + 1 .. last : words[l] # words[k]}})

thrash_initialize(m) ==
    IF m.len % m.pagesize # 0 THEN thrashWords(m) ELSE thrashPages(m)

\* Mutant of linked: the pages are filled to the last line.
linkedToTheEnd(m, i) == nlines(m) - 1

\* How many links mem_initialize makes inside its i-th page: up to the last
\* line of the page or until it has made all but one of npointers.
linked(m, i) ==
    LET before == Least(i * (nlines(m) - 1), npointers(m) - 1)
    IN  Least(nlines(m) - 1, npointers(m) - 1 - before)

\* Through each line of a page and then to the next page, once for each word
\* of a line; the end of one round leads to the next word.
mem_initialize(m) ==
    LET last == npages(m) - 1
        words == words_initialize(nwords(m), Ptr)
        lines == words_initialize(nlines(m), m.line)
        Place(i, j, k) == m.pages[i] + lines[j] + words[k]
        Next(i, k) == IF i < last THEN Place(i + 1, 0, k)
                      ELSE Place(0, 0, (k + 1) % nwords(m))
    IN  ChainOf(UNION {UNION {
            {<<Place(i, j, k), Place(i, j + 1, k)>> :
                j \in 0 .. linked(m, i) - 1}
            \cup {<<Place(i, linked(m, i), k), Next(i, k)>>} :
                k \in 0 .. nwords(m) - 1} : i \in 0 .. last})

\* The first word of each line of each page.
line_initialize(m) ==
    LET last == npages(m) - 1
        lines == words_initialize(nlines(m), m.line)
        Place(i, j) == m.pages[i] + lines[j]
        Next(i, j) == IF j < nlines(m) - 1 THEN Place(i, j + 1)
                      ELSE Place(IF i < last THEN i + 1 ELSE 0, 0)
    IN  ChainOf({<<Place(s[1], s[2]), Next(s[1], s[2])>> :
                    s \in (0 .. last) \X (0 .. nlines(m) - 1)})

\* One word of each page, another line each time; the pages are allocated
\* one by one.
tlb_initialize(m) ==
    LET n == m.len \div m.pagesize
        lines == words_initialize(m.pagesize \div Ptr, Ptr)
        Place(i) == m.pages[i] + lines[i % (m.pagesize \div Ptr)]
    IN  ChainOf({<<Place(i), IF i < n - 1 THEN Place(i + 1) ELSE Place(0)>> :
                    i \in 0 .. n - 1})

-----------------------------------------------------------------------------
\* Mutant of regroup: the links inside the last page of a group stay there.
regroupKeep(m, chain, from, size) ==
    [a \in DOMAIN chain |->
        LET i == CHOOSE i \in 0 .. npages(m) - 1 :
                    m.pages[i] = a - (a % m.pagesize)
        IN  IF i \in from .. from + size - 2
            THEN m.pages[i + 1] + (a % m.pagesize)
            ELSE chain[a]]

\* The pages from .. from + size - 1 of the order become a group: a word
\* points at the same word of the next page of its group, and in the last
\* page the links inside the page go to the first page instead.
regroup(m, chain, from, size) ==
    LET PageOf(a) == a - (a % m.pagesize)
        last == m.pages[from + size - 1]
    IN  [a \in DOMAIN chain |->
            LET i == CHOOSE i \in 0 .. npages(m) - 1 : m.pages[i] = PageOf(a)
            IN  IF i \in from .. from + size - 2
                THEN m.pages[i + 1] + (a % m.pagesize)
                ELSE IF i = from + size - 1 /\ PageOf(chain[a]) = last
                THEN m.pages[from] + (chain[a] % m.pagesize)
                ELSE chain[a]]

\* The groups are made one after the other, the last one of what is left.
dram_page_initialize(m, group) ==
    LET Grouped[k \in 0 .. Ceiling(npages(m), group)] ==
            IF k = 0 THEN mem_initialize(m)
            ELSE regroup(m, Grouped[k - 1], (k - 1) * group,
                         Least(group, npages(m) - (k - 1) * group))
    IN  IF group <= 1 THEN mem_initialize(m)
        ELSE Grouped[Ceiling(npages(m), group)]

-----------------------------------------------------------------------------
\* line_test visits the first pagesize / line of the lines of each page: it
\* makes the last of them lead to the next page...
narrowed(m, chain, line) ==
    LET n == m.pagesize \div line
        lines == words_initialize(nlines(m), m.line)
        last == npages(m) - 1
        cut == ChainOf({<<m.pages[i] + lines[n - 1],
                          m.pages[IF i < last THEN i + 1 ELSE 0] + lines[0]>> :
                            i \in 0 .. last})
    IN  IF n < nlines(m) THEN Overwritten(chain, cut) ELSE chain

\* Mutant of fixedUp: the last page keeps its short way.
fixedUpButLast(m, chain, line) ==
    LET n == m.pagesize \div line
        lines == words_initialize(nlines(m), m.line)
        path == ChainOf({<<m.pages[i] + lines[n - 1], m.pages[i] + lines[n]>> :
                            i \in 0 .. npages(m) - 2})
    IN  IF n < nlines(m) THEN Overwritten(chain, path) ELSE chain

\* ... and afterwards to the next line again.
fixedUp(m, chain, line) ==
    LET n == m.pagesize \div line
        lines == words_initialize(nlines(m), m.line)
        path == ChainOf({<<m.pages[i] + lines[n - 1], m.pages[i] + lines[n]>> :
                            i \in 0 .. npages(m) - 1})
    IN  IF n < nlines(m) THEN Overwritten(chain, path) ELSE chain

\* Mutant of starts: the chunks are counted in words and not in lines.
startsByWord(m, i) ==
    LET lines == words_initialize(nlines(m), m.line)
        words == words_initialize(nwords(m), Ptr)
    IN  [j \in 0 .. i |->
            m.pages[0] + lines[0] + words[((j * nwords(m)) \div (i + 1)) % nwords(m)]]

\* Where par_mem starts its i + 1 walks.
starts(m, i) ==
    LET lines == words_initialize(nlines(m), m.line)
        words == words_initialize(nwords(m), Ptr)
        Line(j) == j * (npointers(m) \div (i + 1))
        Word(j) == (j * nwords(m)) \div (i + 1)
    IN  [j \in 0 .. i |-> m.pages[Line(j) \div nlines(m)]
                          + lines[Line(j) % nlines(m)]
                          + words[Word(j) % nwords(m)]]
=============================================================================
