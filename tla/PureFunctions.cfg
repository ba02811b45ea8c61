\* One input per state.
SPECIFICATION Spec
CONSTANTS
    Bytes <- SomeBytes
    MaxText = 4
    MaxQuery = 6
    MaxParams = 2
    MaxPath = 3
    MaxKey = 1
    Characters = {"a"}
    MaxKeyDepth = 2
    UrlBytes <- SomeUrlBytes
    MaxAddress = 5
    MaxRest = 2
    MaxHost = 2
    MaxTarget = 2
    Ports = {0, 9, 10, 80, 443, 9999, 10000, 65535, 65536, 99999}
    CookieBytes <- SomeCookieBytes
    MaxCookies = 2
    MaxName = 1
    MaxValue = 2
    Numbers = {0, 1, 2, 3}
    Missing = Missing
INVARIANTS
    FragmentsRecovered
    DecodesEveryEscape
    CursorAdvances
    ParametersAreSeparate
    ParsesRendered
    UrlRoundTrip
    CookiesRecovered
    BodyInsideFile
    WholeFileSent
