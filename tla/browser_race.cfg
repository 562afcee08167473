\* Two handlers in flight, and nothing fails.
SPECIFICATION MCSpec
SYMMETRY SlotSymmetry
CONSTANTS
    m1 = m1  m2 = m2  m3 = m3
    text1 = text1  pdf1 = pdf1  text2 = text2
    t1 = t1  t2 = t2  c1 = c1  c2 = c2
    a1 = a1  a2 = a2
    Scopes = {m1, m2, m3}
    Docs = {text1, pdf1, text2}
    Pdf = {pdf1}
    ScopeOf <- MCScopeOf
    Quotes = {q1}
    NoQuote = NoQuote
    Tasks = {t1, t2}
    TenantOf <- MCTenantOf
    Calls = {c1, c2}
    Failing = {}
    None = None
INVARIANTS
    ViewerShowsCited
