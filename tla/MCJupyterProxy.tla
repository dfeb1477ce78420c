--------------------------- MODULE MCJupyterProxy ---------------------------
(* Two HTTP requests for a Jupyter server, or the channels of a kernel.        *)
EXTENDS JupyterProxyProps

CONSTANTS h1, h2, k1

\* Two HTTP requests together, or a websocket alone.
Apart == {{h1, h2}, {k1}}

TwoToKernel == [toUpstream |-> 2, toClient |-> 1]
=============================================================================
