\* Two uploads of one lesson, in two types if need be; two jobs at once, one retry
\* of a failed event and one repeated event.
SPECIFICATION Spec
CONSTANTS
    s1 = s1
    s2 = s2
    m1 = m1
    Slugs = {s1, s2}
    Stem <- OneStem
    Exts = {mp4, mov}
    Tabs = {w1}
    Jobs = {j1, j2}
    Uploads = 2
    Retries = 1
    Copies = 1
INVARIANTS ReplacedInPlace
PROPERTIES EveryUploadComesOut
