----------------------------- MODULE MCDownloader -----------------------------
EXTENDS DownloaderProofs

CONSTANT w1

TwoSettings == {<<"URL", "v">>, <<"COOKIE", "">>}
===============================================================================
