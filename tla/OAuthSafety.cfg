CONSTANTS
    t1 = t1
    t2 = t2
    t3 = t3
    b1 = b1
    b2 = b2
    Tabs = {t1, t2, t3}
    Browsers = {b1, b2}
    BrowserOf <- TabBrowser
    Providers = {google, kakao, naver}
    Configured = {google, kakao}
    States = {n1, n2, n3}
    Codes = {c1}
    NoState = NoState
    NoProvider = NoProvider
    NoCode = NoCode
    Nobody = Nobody
SPECIFICATION Spec
SYMMETRY Symmetry
INVARIANTS TypeOK EndsWhereItBegan UndisturbedReturns HandedOutOnce
